---------------------------- MODULE Spec2Model ----------------------------
(***************************************************************************)
(* A model of the RAW metadata decoder of SnapPy-RAW-Rip:                  *)
(*   - src/Project Glass Canon/snappy_cr3_exif_reader_dev.py               *)
(*       format_tag_value, extract_metadata (full extraction)              *)
(*   - src/snappy_raw_rip.py                                               *)
(*       _parse_date_string, _find_datetime_in_ifd, the four date          *)
(*       strategies and the dispatcher _get_exif_date (date-only)          *)
(*                                                                         *)
(* A file is a sequence of bytes (0..255); the file handle is the pair     *)
(* (file, pos).  Python integers are unbounded, TLC's are 32-bit: the      *)
(* unsigned fields of the generated input files stay below 2^31, so every  *)
(* value the code computes is represented exactly.                         *)
(***************************************************************************)
EXTENDS Integers, Sequences, FiniteSets, TLC

VARIABLES
    api,        \* the entry point this run exercises
    file,       \* the bytes of the input file
    ext,        \* photo_path.suffix, a sequence of character codes
    pc,         \* the position of the running entry point
    pos,        \* f.tell(): the file cursor
    log,        \* history: the reads, box headers and calls made so far
    metadata,   \* extract_metadata: the dict being assembled
    result,     \* the value the entry point returned
    box,        \* the walk's locals: current_pos/box_start, box_size, header_len, box_type
    search,     \* the uuid scan's locals: search_start, tiff_indices, search_pos
    tiff,       \* the directory loop's locals: tiff_num, tiff_base, num_entries, i
    child,      \* the child-directory loop's locals
    call,       \* format_tag_value: the arguments and outcome of the last call
    strategies, \* _get_exif_date: the strategies invoked so far, in order
    input,      \* how the input file was put together (never read by the program)
    written,    \* extract_metadata: the keys assigned in metadata so far, in order
    sidecars,   \* process_cr3_file: the sidecar files of the folder
    last,       \* process_cr3_file: what the last call did
    calls       \* process_cr3_file: the number of calls made so far

vars == <<api, file, ext, pc, pos, log, metadata, result, box, search, tiff, child,
          call, strategies, input, written, sidecars, last, calls>>

-----------------------------------------------------------------------------
(* Bytes and struct.unpack                                                 *)

Byte == 0..255

Min(a, b) == IF a < b THEN a ELSE b

\* struct.unpack('<H', b)[0], b of length 2
U16LE(b) == b[1] + 256 * b[2]

\* struct.unpack('>H', b)[0], b of length 2
U16BE(b) == b[2] + 256 * b[1]

\* struct.unpack('<I', b)[0], b of length 4
U32LE(b) == b[1] + 256 * b[2] + 65536 * b[3] + 16777216 * b[4]

\* struct.unpack('>I', b)[0], b of length 4
U32BE(b) == b[4] + 256 * b[3] + 65536 * b[2] + 16777216 * b[1]

\* struct.unpack('<i', b)[0], b of length 4: two's complement
S32LE(b) == b[1] + 256 * b[2] + 65536 * b[3]
            + 16777216 * (IF b[4] >= 128 THEN b[4] - 256 ELSE b[4])

\* struct.unpack('>Q', b)[0], b of length 8 (inputs keep the upper 4 bytes 0)
U64BE(b) == IF b[1] = 0 /\ b[2] = 0 /\ b[3] = 0 /\ b[4] = 0
            THEN U32BE(SubSeq(b, 5, 8))
            ELSE 2147483647

\* struct.unpack(f'{byte_order}H' / 'I', b)[0]
U16(bo, b) == IF bo = "<" THEN U16LE(b) ELSE U16BE(b)
U32(bo, b) == IF bo = "<" THEN U32LE(b) ELSE U32BE(b)

\* Op(v), with v evaluated once however often Op uses it
Let(v, Op(_)) == CHOOSE r \in {Op(x) : x \in {v}} : TRUE

\* f.read(n) at cursor p: the bytes returned (short at end of file, empty past it)
ReadBytes(f, p, n) ==
    IF p >= Len(f) \/ n <= 0 THEN <<>>
    ELSE SubSeq(f, p + 1, IF n > Len(f) - p THEN Len(f) ELSE p + n)

\* bytes.find(sig, start) on a chunk: the lowest index >= start, or -1
FindFrom(chunk, sig, start) ==
    Let(chunk, LAMBDA c :
    Let({i \in start..(Len(c) - Len(sig)) : SubSeq(c, i + 1, i + Len(sig)) = sig},
        LAMBDA hits : IF hits = {} THEN -1 ELSE CHOOSE i \in hits : \A j \in hits : i <= j))

\* b.split(b'\x00')[0]
RECURSIVE UpToNul(_)
UpToNul(b) ==
    Let(b, LAMBDA s :
        IF s = <<>> \/ Head(s) = 0 THEN <<>> ELSE <<Head(s)>> \o UpToNul(Tail(s)))

\* .decode('utf-8', errors='ignore'): ASCII bytes are kept; a byte >= 128 that
\* starts no valid sequence is dropped (the inputs hold no valid multi-byte sequence)
RECURSIVE DecodeIgnore(_)
DecodeIgnore(b) ==
    Let(b, LAMBDA s :
        IF s = <<>> THEN <<>>
        ELSE (IF Head(s) < 128 THEN <<Head(s)>> ELSE <<>>) \o DecodeIgnore(Tail(s)))

-----------------------------------------------------------------------------
(* Python values                                                           *)

None == [t |-> "None", v |-> <<>>]
PyStr(b) == [t |-> "str", v |-> b]
PyInt(n) == [t |-> "int", v |-> <<n>>]
PyList(s) == [t |-> "list", v |-> s]
\* f"<parse error: {e}>"
ParseError == [t |-> "parse error", v |-> <<>>]

RECURSIVE Gcd(_, _)
Gcd(a, b) == IF b = 0 THEN a ELSE Gcd(b, a % b)
Abs(a) == IF a < 0 THEN -a ELSE a

\* numerator / denominator (true division), denominator # 0: the quotient as a
\* fraction in lowest terms with a positive denominator
PyDiv(n, d) ==
    LET g == Gcd(Abs(n), Abs(d))
        s == IF d < 0 THEN -1 ELSE 1
    IN  [t |-> "float", v |-> <<(s * n) \div g, (s * d) \div g>>]

-----------------------------------------------------------------------------
(* format_tag_value(tag_type, count, value_data, file_handle, data_offset)  *)
(* The file handle is (f, p).  The outcome is the value returned, the       *)
(* cursor the call leaves behind, and the reads it made as <<offset,        *)
(* bytes requested>>.                                                       *)

Max(a, b) == IF a > b THEN a ELSE b

Outcome(ret, p, reads) == [ret |-> ret, pos |-> p, reads |-> reads]

\* tag_type == 2, lines 171-179: read(count) may come back short, which raises
\* nothing, so the cursor is always put back
FormatAscii(count, value_data, f, p, data_offset) ==
    IF count <= 4
    THEN Outcome(PyStr(DecodeIgnore(UpToNul(value_data))), p, <<>>)
    ELSE LET at == data_offset + U32LE(value_data)
         IN  Outcome(PyStr(DecodeIgnore(UpToNul(ReadBytes(f, at, count)))), p,
                     << <<at, count>> >>)

\* tag_type == 3, lines 182-190: a short read(2) makes struct.unpack raise inside
\* the comprehension, before line 189 puts the cursor back; values[0] on an empty
\* list (count == 0) raises after it
FormatShort(count, value_data, f, p, data_offset) ==
    IF count = 1
    THEN Outcome(PyInt(U16LE(SubSeq(value_data, 1, 2))), p, <<>>)
    ELSE LET at == data_offset + U32LE(value_data)
             whole == IF at >= Len(f) THEN 0 ELSE (Len(f) - at) \div 2
         IN  IF count <= whole
             THEN Outcome(
                    IF count = 0 THEN ParseError
                    ELSE PyList([k \in 1..count |->
                                   U16LE(ReadBytes(f, at + 2 * (k - 1), 2))]),
                    p,
                    [k \in 1..count |-> <<at + 2 * (k - 1), 2>>])
             ELSE Outcome(ParseError, Max(at, Len(f)),
                          [k \in 1..(whole + 1) |-> <<at + 2 * (k - 1), 2>>])

\* The division without the zero test of lines 202/213: ZeroDivisionError is
\* caught at line 220 and the placeholder is returned.
RationalValue_NoZeroCheck(numerator, denominator) ==
    IF denominator = 0 THEN ParseError ELSE PyDiv(numerator, denominator)

\* lines 202-204 and 213-215
RationalValue(numerator, denominator) ==
    IF denominator = 0 THEN PyInt(0) ELSE PyDiv(numerator, denominator)

\* struct.unpack('<I', ...) of line 199-200 against '<i' of lines 210-211
RationalComponent(signed, b) == IF signed THEN S32LE(b) ELSE U32LE(b)

\* tag_type == 5 and tag_type == 10, lines 196-215: the cursor is put back (lines
\* 201, 212) only after both components were unpacked
FormatRational(signed, value_data, f, p, data_offset) ==
    LET at == data_offset + U32LE(value_data)
        n == ReadBytes(f, at, 4)
        d == ReadBytes(f, at + 4, 4)
    IN  IF Len(n) < 4
        THEN Outcome(ParseError, Max(at, Len(f)), << <<at, 4>> >>)
        ELSE IF Len(d) < 4
        THEN Outcome(ParseError, Len(f), << <<at, 4>>, <<at + 4, 4>> >>)
        ELSE Outcome(RationalValue(RationalComponent(signed, n),
                                   RationalComponent(signed, d)),
                     p, << <<at, 4>>, <<at + 4, 4>> >>)

\* lines 164-221; value_data is always the 4-byte slot entry[8:12]
format_tag_value(tag_type, count, value_data, f, p, data_offset) ==
    CASE tag_type = 2  -> FormatAscii(count, value_data, f, p, data_offset)
      [] tag_type = 3  -> FormatShort(count, value_data, f, p, data_offset)
      [] tag_type = 4  -> Outcome(PyInt(U32LE(value_data)), p, <<>>)
      [] tag_type = 5  -> FormatRational(FALSE, value_data, f, p, data_offset)
      [] tag_type = 10 -> FormatRational(TRUE, value_data, f, p, data_offset)
      [] OTHER         -> Outcome(PyInt(U32LE(value_data)), p, <<>>)

\* The record kept of one call: its arguments, the cursor before and after, the
\* value returned and the reads made.
CallRecord(tag_type, count, value_data, p, data_offset, out) ==
    [tag_type |-> tag_type, count |-> count, value_data |-> value_data,
     data_offset |-> data_offset, before |-> p, after |-> out.pos,
     ret |-> out.ret, reads |-> out.reads]

NoCall == [tag_type |-> 0, count |-> 0, value_data |-> <<0, 0, 0, 0>>,
           data_offset |-> 0, before |-> 0, after |-> 0, ret |-> None,
           reads |-> <<>>]

-----------------------------------------------------------------------------
(* Little helpers to write input files                                     *)

LE16(n) == <<n % 256, n \div 256>>
BE16(n) == <<n \div 256, n % 256>>
LE32(n) == <<n % 256, (n \div 256) % 256, (n \div 65536) % 256, n \div 16777216>>
BE32(n) == <<n \div 16777216, (n \div 65536) % 256, (n \div 256) % 256, n % 256>>
P16(bo, n) == IF bo = "<" THEN LE16(n) ELSE BE16(n)
P32(bo, n) == IF bo = "<" THEN LE32(n) ELSE BE32(n)

EmptyDict == [k \in {} |-> None]
NoBox == [current_pos |-> 0, box_size |-> 0, header_len |-> 0, box_type |-> <<>>]
NoSearch == [search_start |-> 0, tiff_indices |-> <<>>, search_pos |-> 0]
NoTiff == [tiff_num |-> 0, tiff_base |-> 0, num_entries |-> 0, i |-> 0]
NoChild == [kind |-> "", n |-> 0, j |-> 0, current_ifd_pos |-> 0]
NoInput == [family |-> "", dirs |-> <<>>, layout |-> "", cut |-> 0]
NoSidecars == [p \in {} |-> FALSE]
NoLast == [source |-> "", existed |-> FALSE, steps |-> <<>>, ret |-> FALSE]

-----------------------------------------------------------------------------
(* format_tag_value called on its own: the inputs                          *)

\* The largest count an entry of the inputs declares.
FmtMaxCount == 5

\* The data the out-of-line offsets point into:
\*   0: 3/2    8: 7/0    16: -1/2 (signed)    24: "Hi", NUL, "x", 0xC3, "yz"    32: end
FmtFile ==
    LE32(3) \o LE32(2) \o LE32(7) \o LE32(0) \o <<255, 255, 255, 255>> \o LE32(2)
    \o <<72, 105, 0, 120, 195, 121, 122, 0>>

FmtTypes == {1, 2, 3, 4, 5, 7, 9, 10, 13}
FmtSlots == {LE32(0), LE32(6), LE32(14), LE32(22), LE32(27), LE32(31), LE32(300),
             <<65, 66, 0, 67>>, <<65, 200, 67, 68>>}
FmtBases == {0, 2}
FmtCursors == {0, 5}

\* Python reads the two components of a RATIONAL with '<I': a component with its
\* top bit set is kept out of the unsigned inputs (see the module's header).
FmtRepresentable(tag_type, value_data, data_offset) ==
    tag_type = 5 =>
        LET at == data_offset + U32LE(value_data)
        IN  \A k \in {at + 4, at + 8} : k \in 1..Len(FmtFile) => FmtFile[k] < 128

InitFmt ==
    /\ api = "format_tag_value"
    /\ file = FmtFile
    /\ ext = <<>>
    /\ pc = "call"
    /\ pos \in FmtCursors
    /\ log = <<>>
    /\ metadata = EmptyDict
    /\ result = None
    /\ box = NoBox /\ search = NoSearch /\ tiff = NoTiff /\ child = NoChild
    /\ strategies = <<>>
    /\ input = NoInput
    /\ written = <<>> /\ sidecars = NoSidecars /\ last = NoLast /\ calls = 0
    /\ \E tag_type \in FmtTypes, count \in 0..FmtMaxCount,
          value_data \in FmtSlots, data_offset \in FmtBases :
          /\ FmtRepresentable(tag_type, value_data, data_offset)
          /\ call = [NoCall EXCEPT !.tag_type = tag_type, !.count = count,
                                   !.value_data = value_data,
                                   !.data_offset = data_offset,
                                   !.before = pos, !.after = pos]

\* value = format_tag_value(tag_type, count, value_data, f, tiff_base)
FmtCall ==
    /\ api = "format_tag_value" /\ pc = "call"
    /\ LET out == format_tag_value(call.tag_type, call.count, call.value_data,
                                   file, pos, call.data_offset)
       IN  /\ call' = CallRecord(call.tag_type, call.count, call.value_data, pos,
                                 call.data_offset, out)
           /\ pos' = out.pos
           /\ result' = out.ret
           /\ log' = log \o [k \in 1..Len(out.reads) |->
                               [e |-> "read", at |-> out.reads[k][1],
                                n |-> out.reads[k][2]]]
    /\ pc' = "returned"
    /\ UNCHANGED <<api, file, ext, metadata, box, search, tiff, child, strategies,
                   input,
                   written, sidecars, last, calls>>

NextFmt == FmtCall

SpecFmt == InitFmt /\ [][NextFmt]_vars

-----------------------------------------------------------------------------
(* _parse_date_string: datetime.strptime(date_str.strip(),                  *)
(* "%Y:%m:%d %H:%M:%S").date(), None on ValueError                          *)

PyDate(y, m, d) == [t |-> "date", v |-> <<y, m, d>>]

\* str.strip() and the regular expression's \s: ASCII white space
IsSpace(c) == c \in {9, 10, 11, 12, 13, 28, 29, 30, 31, 32}
IsDigit(c) == c \in 48..57

RECURSIVE LStrip(_)
LStrip(s) ==
    Let(s, LAMBDA t : IF t # <<>> /\ IsSpace(Head(t)) THEN LStrip(Tail(t)) ELSE t)
RECURSIVE RStrip(_)
RStrip(s) ==
    Let(s, LAMBDA t :
        IF t # <<>> /\ IsSpace(t[Len(t)]) THEN RStrip(SubSeq(t, 1, Len(t) - 1)) ELSE t)
Strip(s) == RStrip(LStrip(s))

\* One numeric directive of strptime at index i of s: its regular expression tries
\* the two-digit alternatives (values lo2..hi2) before the one-digit one (lo1..9).
\* [ok, val, next]
Directive(s, i, lo2, hi2, lo1) ==
    LET d1 == IF i <= Len(s) /\ IsDigit(s[i]) THEN s[i] - 48 ELSE -1
        d2 == IF i + 1 <= Len(s) /\ IsDigit(s[i + 1]) THEN s[i + 1] - 48 ELSE -1
    IN  IF d1 >= 0 /\ d2 >= 0 /\ 10 * d1 + d2 \in lo2..hi2
        THEN [ok |-> TRUE, val |-> 10 * d1 + d2, next |-> i + 2]
        ELSE IF d1 >= lo1
        THEN [ok |-> TRUE, val |-> d1, next |-> i + 1]
        ELSE [ok |-> FALSE, val |-> 0, next |-> i]

\* %d also accepts a blank followed by one digit 1-9
DayDirective(s, i) ==
    LET plain == Directive(s, i, 1, 31, 1)
    IN  IF plain.ok THEN plain
        ELSE IF i + 1 <= Len(s) /\ s[i] = 32 /\ s[i + 1] \in 49..57
        THEN [ok |-> TRUE, val |-> s[i + 1] - 48, next |-> i + 2]
        ELSE plain

\* a literal ':' of the format
Colon(s, i) == i <= Len(s) /\ s[i] = 58

\* the blank of the format matches \s+: the index after the run of white space
\* that starts at i, or i itself when there is none
RECURSIVE SkipSpace(_, _)
SkipSpace(s, i) == IF i <= Len(s) /\ IsSpace(s[i]) THEN SkipSpace(s, i + 1) ELSE i

IsLeap(y) == y % 4 = 0 /\ (y % 100 # 0 \/ y % 400 = 0)
DaysInMonth(y, m) ==
    IF m = 2 THEN (IF IsLeap(y) THEN 29 ELSE 28)
    ELSE IF m \in {4, 6, 9, 11} THEN 30 ELSE 31

\* datetime(y, mo, da, ho, mi, se).date(): the constructor rejects year 0, a day
\* past the month's end and second 60
DateOrNone(y, mo, da, se) ==
    IF y >= 1 /\ da <= DaysInMonth(y, mo) /\ se <= 59 THEN PyDate(y, mo, da) ELSE None

\* the format's ":%M:%S" from index i of s on, and the end of the string
ParseMinuteSecond(s, y, mo, da, i) ==
    Let(Directive(s, i + 1, 0, 59, 0), LAMBDA mi :
    Let(Directive(s, mi.next + 1, 0, 61, 0), LAMBDA se :
        IF Colon(s, i) /\ mi.ok /\ Colon(s, mi.next) /\ se.ok /\ se.next = Len(s) + 1
        THEN DateOrNone(y, mo, da, se.val)
        ELSE None))

\* the format's ":%m:%d %H" from index 5 of s on, then the rest
ParseFromMonth(s, y) ==
    Let(Directive(s, 6, 1, 12, 1), LAMBDA mo :
    Let(DayDirective(s, mo.next + 1), LAMBDA da :
    Let(SkipSpace(s, da.next), LAMBDA sp :
    Let(Directive(s, sp, 0, 23, 0), LAMBDA ho :
        IF Colon(s, 5) /\ mo.ok /\ Colon(s, mo.next) /\ da.ok /\ sp > da.next /\ ho.ok
        THEN ParseMinuteSecond(s, y, mo.val, da.val, ho.next)
        ELSE None))))

\* lines 68-73; date_str is a str here (the callers pass only non-empty strings)
parse_date_string(date_str) ==
    Let(Strip(date_str), LAMBDA s :
        IF Len(s) >= 4 /\ \A k \in 1..4 : IsDigit(s[k])
        THEN ParseFromMonth(s, 1000 * (s[1] - 48) + 100 * (s[2] - 48)
                               + 10 * (s[3] - 48) + (s[4] - 48))
        ELSE None)

-----------------------------------------------------------------------------
(* Constants of the two source files                                       *)

\* b'\x49\x49\x2A\x00' and b'\x4D\x4D\x00\x2A'
TIFF_SIGNATURE_LE == <<73, 73, 42, 0>>
TIFF_SIGNATURE_BE == <<77, 77, 0, 42>>

\* binascii.hexlify(f.read(16)) == "85c0b687820f11e08111f4ce462b6a48": hexlify is
\* one-to-one, so the comparison is a comparison of the 16 bytes
CANON_CMT1_UUID ==
    <<133, 192, 182, 135, 130, 15, 17, 224, 129, 17, 244, 206, 70, 43, 106, 72>>

EXIF_TAG_DATETIME_ORIGINAL == 36867
EXIF_TAG_EXIF_IFD_POINTER == 34665
\* tag_id == 330 (SubIFDs), line 355
TAG_SUB_IFDS == 330

\* The four-character codes the walks compare box_type with.  header[4:8].decode(
\* 'utf-8', errors='ignore') equals a 4-character ASCII string only when the four
\* bytes are those characters, so box_type is kept as its four bytes.
Type_uuid == <<117, 117, 105, 100>>
Type_moov == <<109, 111, 111, 118>>
Type_trak == <<116, 114, 97, 107>>
Type_mdia == <<109, 100, 105, 97>>
Type_minf == <<109, 105, 110, 102>>
Type_stbl == <<115, 116, 98, 108>>
Type_ftyp == <<102, 116, 121, 112>>
Type_free == <<102, 114, 101, 101>>
\* box_type in ['moov', 'trak', 'mdia', 'minf', 'stbl']
ContainerTypes == {Type_moov, Type_trak, Type_mdia, Type_minf, Type_stbl}

\* chunk = f.read(200000)
LOOKAHEAD == 200000
\* if num_entries > 200
MAX_ENTRIES == 200
\* if ifd_offset > 50000 or ifd_offset < 8
MIN_IFD_OFFSET == 8
MAX_IFD_OFFSET == 50000

TIFF5_CANON_TAGS ==
    (6 :> "CameraModel") @@ (7 :> "FirmwareVersion") @@ (149 :> "LensModel")
    @@ (150 :> "LensManufacturingCode")

TIFF_TAGS ==
    (254 :> "NewSubfileType")
    @@ (255 :> "SubfileType")
    @@ (256 :> "ImageWidth")
    @@ (257 :> "ImageLength")
    @@ (258 :> "BitsPerSample")
    @@ (259 :> "Compression")
    @@ (262 :> "PhotometricInterpretation")
    @@ (270 :> "ImageDescription")
    @@ (271 :> "Make")
    @@ (272 :> "Model")
    @@ (273 :> "StripOffsets")
    @@ (274 :> "Orientation")
    @@ (277 :> "SamplesPerPixel")
    @@ (278 :> "RowsPerStrip")
    @@ (279 :> "StripByteCounts")
    @@ (282 :> "XResolution")
    @@ (283 :> "YResolution")
    @@ (284 :> "PlanarConfiguration")
    @@ (296 :> "ResolutionUnit")
    @@ (305 :> "Software")
    @@ (306 :> "DateTime")
    @@ (315 :> "Artist")
    @@ (316 :> "HostComputer")
    @@ (320 :> "ColorMap")
    @@ (338 :> "ExtraSamples")
    @@ (33432 :> "Copyright")
    @@ (33434 :> "ExposureTime")
    @@ (33437 :> "FNumber")
    @@ (34665 :> "ExifIFDPointer")
    @@ (34850 :> "ExposureProgram")
    @@ (34855 :> "ISOSpeedRatings")
    @@ (36867 :> "DateTimeOriginal")
    @@ (36868 :> "DateTimeDigitized")
    @@ (37377 :> "ShutterSpeedValue")
    @@ (37378 :> "ApertureValue")
    @@ (37380 :> "ExposureBiasValue")
    @@ (37381 :> "MaxApertureValue")
    @@ (37383 :> "MeteringMode")
    @@ (37384 :> "LightSource")
    @@ (37385 :> "Flash")
    @@ (37386 :> "FocalLength")
    @@ (37510 :> "UserComment")
    @@ (40961 :> "ColorSpace")
    @@ (40962 :> "PixelXDimension")
    @@ (40963 :> "PixelYDimension")
    @@ (41486 :> "FocalPlaneXResolution")
    @@ (41487 :> "FocalPlaneYResolution")
    @@ (41488 :> "FocalPlaneResolutionUnit")
    @@ (41989 :> "FocalLengthIn35mmFilm")
    @@ (41990 :> "SceneCaptureType")
    @@ (42034 :> "LensSpecification")
    @@ (42035 :> "LensMake")
    @@ (42036 :> "LensModel")
    @@ (42037 :> "LensSerialNumber")
    @@ (37121 :> "ComponentsConfiguration")
    @@ (37122 :> "CompressedBitsPerPixel")
    @@ (37500 :> "MakerNote")
    @@ (37520 :> "SubSecTime")
    @@ (37521 :> "SubSecTimeOriginal")
    @@ (37522 :> "SubSecTimeDigitized")
    @@ (40960 :> "FlashpixVersion")
    @@ (41495 :> "SensingMethod")
    @@ (41728 :> "FileSource")
    @@ (41729 :> "SceneType")
    @@ (41985 :> "CustomRendered")
    @@ (41986 :> "ExposureMode")
    @@ (41987 :> "WhiteBalance")
    @@ (41988 :> "DigitalZoomRatio")
    @@ (41991 :> "GainControl")
    @@ (41992 :> "Contrast")
    @@ (41993 :> "Saturation")
    @@ (41994 :> "Sharpness")
    @@ (42016 :> "ImageUniqueID")
    @@ (42080 :> "CompositeImage")
    @@ (42081 :> "SourceImageNumberOfCompositeImage")
    @@ (42082 :> "SourceExposureTimesOfCompositeImage")
    @@ (34853 :> "GPSIFDPointer")
    @@ (40965 :> "InteroperabilityIFDPointer")
    @@ (330 :> "SubIFDs")

\* dict.get(tag_id, default)
Get(d, k, default) == IF k \in DOMAIN d THEN d[k] ELSE default

\* Names from the vendor dictionary for the sixth directory instead of the fifth.
TagName_Sixth(tiff_num, tag_id) ==
    IF tiff_num = 5
    THEN Get(TIFF5_CANON_TAGS, tag_id,
             Get(TIFF_TAGS, tag_id, "UnknownTag_" \o ToString(tag_id)))
    ELSE Get(TIFF_TAGS, tag_id, "UnknownTag_" \o ToString(tag_id))

\* lines 314-317: the name of a main-directory tag
TagName(tiff_num, tag_id) ==
    IF tiff_num = 4
    THEN Get(TIFF5_CANON_TAGS, tag_id,
             Get(TIFF_TAGS, tag_id, "UnknownTag_" \o ToString(tag_id)))
    ELSE Get(TIFF_TAGS, tag_id, "UnknownTag_" \o ToString(tag_id))

\* A prefix made of "Dir" and the directory's zero-based index.
Prefix_Dir(tiff_num) ==
    IF tiff_num > 0 THEN "Dir" \o ToString(tiff_num) \o "_" ELSE ""

\* line 318: prefix = f"TIFF{tiff_num+1}_" if tiff_num > 0 else ""
Prefix(tiff_num) ==
    IF tiff_num > 0 THEN "TIFF" \o ToString(tiff_num + 1) \o "_" ELSE ""

\* line 344 and line 374: the name of a child-directory tag
ExifTagName(tag_id) == Get(TIFF_TAGS, tag_id, "UnknownExifTag_" \o ToString(tag_id))
SubTagName(tag_id) ==
    "SubIFD_" \o Get(TIFF_TAGS, tag_id, "UnknownSubTag_" \o ToString(tag_id))

\* metadata[key] = value
Put(d, key, value) == [k \in DOMAIN d \cup {key} |-> IF k = key THEN value ELSE d[k]]

-----------------------------------------------------------------------------
(* _find_datetime_in_ifd(f, ifd_offset, tiff_base, byte_order)              *)

\* The deepest nesting of _find_datetime_in_ifd frames the interpreter allows
\* before the next call raises RecursionError (sys.getrecursionlimit(), scaled
\* down).
MaxRecursion == 4

\* if result: / if date_str:  -- a non-empty str
Truthy(r) == r.t = "str" /\ r.v # <<>>

\* What a call did: the value returned, the cursor left behind, the reads made
\* as <<offset, bytes requested>>, and the deepest frame reached.
Found(ret, p, reads, deepest) ==
    [ret |-> ret, pos |-> p, reads |-> reads, deepest |-> deepest]

RECURSIVE find_datetime_in_ifd(_, _, _, _, _)
RECURSIVE FindEntries(_, _, _, _, _, _, _, _)

\* lines 84-113: the entry loop of one frame, at cursor p with `left` entries to
\* go.  Every exception ends the frame with None (lines 114-115).
FindEntries(f, tiff_base, byte_order, p, left, depth, reads, deepest) ==
    IF left = 0 THEN Found(None, p, reads, deepest)
    ELSE
    Let(ReadBytes(f, p, 12), LAMBDA entry :
    LET reads1 == Append(reads, <<p, 12>>)
        p1 == p + 12
    IN  IF Len(entry) < 12 THEN Found(None, p + Len(entry), reads1, deepest)
        ELSE
        LET tag_id == U16(byte_order, SubSeq(entry, 1, 2))
            count == U32(byte_order, SubSeq(entry, 5, 8))
            value_data == SubSeq(entry, 9, 12)
            offset == U32(byte_order, value_data)
        IN  IF tag_id = EXIF_TAG_DATETIME_ORIGINAL
            THEN IF count <= 4
                 THEN Found(PyStr(DecodeIgnore(UpToNul(value_data))), p1, reads1,
                            deepest)
                 ELSE Found(PyStr(DecodeIgnore(UpToNul(
                                ReadBytes(f, tiff_base + offset, count)))),
                            p1, Append(reads1, <<tiff_base + offset, count>>),
                            deepest)
            ELSE IF tag_id = EXIF_TAG_EXIF_IFD_POINTER
            THEN IF depth >= MaxRecursion
                 THEN \* RecursionError, caught by this frame's except
                      Found(None, p1, reads1, deepest)
                 ELSE Let(find_datetime_in_ifd(f, offset, tiff_base, byte_order,
                                               depth + 1), LAMBDA sub :
                      LET seen == reads1 \o sub.reads
                          deep == Max(deepest, sub.deepest)
                      IN  IF Truthy(sub.ret)
                          THEN Found(sub.ret, sub.pos, seen, deep)
                          ELSE FindEntries(f, tiff_base, byte_order, p1, left - 1,
                                           depth, seen, deep))
            ELSE FindEntries(f, tiff_base, byte_order, p1, left - 1, depth, reads1,
                             deepest))

\* The sanity check of line 81.
TooManyEntries(num_entries) == num_entries > MAX_ENTRIES

\* lines 75-115; depth is the number of frames of this function on the stack
find_datetime_in_ifd(f, ifd_offset, tiff_base, byte_order, depth) ==
    LET at == tiff_base + ifd_offset
        head == ReadBytes(f, at, 2)
    IN  IF Len(head) < 2
        THEN Found(None, Max(at, Len(f)), << <<at, 2>> >>, depth)
        ELSE IF TooManyEntries(U16(byte_order, head))
        THEN Found(None, at + 2, << <<at, 2>> >>, depth)
        ELSE FindEntries(f, tiff_base, byte_order, at + 2, U16(byte_order, head),
                         depth, << <<at, 2>> >>, depth)

-----------------------------------------------------------------------------
(* The box walk shared by extract_metadata (lines 234-249, 396-400) and     *)
(* _extract_date_from_cr3 (lines 200-218, 256-260)                          *)

ReadEv(at, n) == [e |-> "read", at |-> at, n |-> n, depth |-> 0]
RaiseEv(at) == [e |-> "raise", at |-> at, n |-> 0, depth |-> 0]
LogReads(reads) == Let(reads, LAMBDA r : [k \in 1..Len(r) |-> ReadEv(r[k][1], r[k][2])])

\* f.tell() after f.read(n) at cursor p
After(f, p, n) == p + Len(ReadBytes(f, p, n))

\* header = f.read(8) and, when the size field is 1, the 8 bytes of the extended
\* size.  status: "short" (len(header) < 8), "ext_short" (fewer than 8 bytes of
\* extended size), "ok".
ReadBoxHeader(f, p) ==
    LET header == ReadBytes(f, p, 8)
        size32 == U32BE(SubSeq(header, 1, 4))
        ext_size == ReadBytes(f, p + 8, 8)
        none == [status |-> "short", current_pos |-> p, box_size |-> 0,
                 header_len |-> 8, box_type |-> <<>>, pos |-> p + Len(header),
                 reads |-> << <<p, 8>> >>]
    IN  IF Len(header) < 8 THEN none
        ELSE IF size32 # 1
        THEN [none EXCEPT !.status = "ok", !.box_size = size32,
                          !.box_type = SubSeq(header, 5, 8)]
        ELSE IF Len(ext_size) < 8
        THEN [none EXCEPT !.status = "ext_short", !.box_size = 1,
                          !.box_type = SubSeq(header, 5, 8),
                          !.pos = p + 8 + Len(ext_size),
                          !.reads = << <<p, 8>>, <<p + 8, 8>> >>]
        ELSE [none EXCEPT !.status = "ok", !.box_size = U64BE(ext_size),
                          !.header_len = 16, !.box_type = SubSeq(header, 5, 8),
                          !.pos = p + 16,
                          !.reads = << <<p, 8>>, <<p + 8, 8>> >>]

BoxOf(h) == [current_pos |-> h.current_pos, box_size |-> h.box_size,
             header_len |-> h.header_len, box_type |-> h.box_type]

\* if box_size == 0 or box_size > file_size: break
BoxRejected(box_size, file_size) == box_size = 0 \/ box_size > file_size

\* Navigation that seeks back to the start of the box it has just read.
NextBoxAt_Stay(b) == b.current_pos

\* Navigation that leaves every box by its size, containers too.
NextBoxAt_BySize(b) == b.current_pos + b.box_size

\* the seek target of "Navigate boxes"
NextBoxAt(b) ==
    IF b.box_type \in ContainerTypes THEN b.current_pos + b.header_len
    ELSE b.current_pos + b.box_size

\* every index of sig in chunk from index `from` on (find, then search_pos =
\* tiff_idx + 1, until find returns -1)
RECURSIVE FindAll(_, _, _)
FindAll(chunk, sig, from) ==
    LET idx == FindFrom(chunk, sig, from)
    IN  IF idx = -1 THEN <<>> ELSE <<idx>> \o FindAll(chunk, sig, idx + 1)

-----------------------------------------------------------------------------
(* extract_metadata(file_path), lines 223-406                               *)

Full == api = "extract_metadata"

\* return metadata (line 394)
DictResult == [t |-> "dict", v |-> <<>>]
\* The handler of lines 402-404 re-raising: the exception leaves extract_metadata.
ExtractMetadataExcept_Propagates == [t |-> "raised", v |-> <<>>]

\* lines 402-404: except Exception as e: print(...); return None
ExtractMetadataExcept == None

\* while f.tell() < file_size fails: return None (line 406)
FullWalkEnd ==
    /\ Full /\ pc = "walk" /\ pos >= Len(file)
    /\ pc' = "done" /\ result' = None
    /\ UNCHANGED <<api, file, ext, pos, log, metadata, box, search, tiff, child,
                   call, strategies, input,
                   written, sidecars, last, calls>>

\* lines 235-251: one box header.  A short header and a rejected size break the
\* loop; a short extended size makes struct.unpack raise into line 402.
FullBoxHeader ==
    /\ Full /\ pc = "walk" /\ pos < Len(file)
    /\ LET h == ReadBoxHeader(file, pos)
       IN  /\ pos' = h.pos
           /\ box' = BoxOf(h)
           /\ log' = log \o LogReads(h.reads)
                        \o (IF h.status = "ext_short" THEN <<RaiseEv(h.pos)>> ELSE <<>>)
           /\ IF h.status = "short" THEN pc' = "done" /\ result' = None
              ELSE IF h.status = "ext_short"
              THEN pc' = "done" /\ result' = ExtractMetadataExcept
              ELSE IF BoxRejected(h.box_size, Len(file))
              THEN pc' = "done" /\ result' = None
              ELSE /\ pc' = IF h.box_type = Type_uuid THEN "uuid" ELSE "navigate"
                   /\ result' = result
    /\ UNCHANGED <<api, file, ext, metadata, search, tiff, child, call, strategies,
                   input,
                   written, sidecars, last, calls>>

\* lines 252-269: the 16 bytes after the header; for the Canon box the lookahead
\* window is read from search_start and every little-endian signature is located
FullUuid ==
    /\ Full /\ pc = "uuid"
    /\ LET uuid == ReadBytes(file, pos, 16)
           search_start == box.current_pos + box.header_len + 16
           chunk == ReadBytes(file, search_start, LOOKAHEAD)
       IN  IF uuid = CANON_CMT1_UUID
           THEN /\ search' = [search_start |-> search_start,
                              tiff_indices |-> FindAll(chunk, TIFF_SIGNATURE_LE, 0),
                              search_pos |-> 0]
                /\ pos' = search_start + Len(chunk)
                /\ log' = log \o <<ReadEv(pos, 16), ReadEv(search_start, LOOKAHEAD)>>
                /\ tiff' = NoTiff
                /\ pc' = "tiff"
           ELSE /\ pos' = pos + Len(uuid)
                /\ log' = Append(log, ReadEv(pos, 16))
                /\ pc' = "navigate"
                /\ UNCHANGED <<search, tiff>>
    /\ UNCHANGED <<api, file, ext, metadata, result, box, child, call, strategies,
                   input,
                   written, sidecars, last, calls>>

\* if ifd_offset > 50000 or ifd_offset < 8: continue
FullBadIfdOffset(ifd_offset) == ifd_offset > MAX_IFD_OFFSET \/ ifd_offset < MIN_IFD_OFFSET

\* if num_entries > 200: continue
FullTooManyEntries(num_entries) == num_entries > MAX_ENTRIES

NextTiff == [NoTiff EXCEPT !.tiff_num = tiff.tiff_num + 1]

\* lines 275-302: open the next located directory.  A short read of the offset
\* or of the entry count raises into line 388, which goes on to the next one.
FullTiffOpen ==
    /\ Full /\ pc = "tiff" /\ tiff.tiff_num < Len(search.tiff_indices)
    /\ LET tiff_base == search.search_start + search.tiff_indices[tiff.tiff_num + 1]
           b4 == ReadBytes(file, tiff_base + 4, 4)
           ifd_offset == U32LE(b4)
           at == tiff_base + ifd_offset
           b2 == ReadBytes(file, at, 2)
       IN  IF Len(b4) < 4
           THEN /\ pos' = Max(tiff_base + 4, Len(file))
                /\ log' = log \o <<ReadEv(tiff_base + 4, 4), RaiseEv(tiff_base + 4)>>
                /\ tiff' = NextTiff /\ pc' = "tiff"
           ELSE IF FullBadIfdOffset(ifd_offset)
           THEN /\ pos' = tiff_base + 8
                /\ log' = Append(log, ReadEv(tiff_base + 4, 4))
                /\ tiff' = NextTiff /\ pc' = "tiff"
           ELSE IF Len(b2) < 2
           THEN /\ pos' = Max(at, Len(file))
                /\ log' = log \o <<ReadEv(tiff_base + 4, 4), ReadEv(at, 2), RaiseEv(at)>>
                /\ tiff' = NextTiff /\ pc' = "tiff"
           ELSE IF FullTooManyEntries(U16LE(b2))
           THEN /\ pos' = at + 2
                /\ log' = log \o <<ReadEv(tiff_base + 4, 4), ReadEv(at, 2)>>
                /\ tiff' = NextTiff /\ pc' = "tiff"
           ELSE /\ pos' = at + 2
                /\ log' = log \o <<ReadEv(tiff_base + 4, 4), ReadEv(at, 2)>>
                /\ tiff' = [tiff_num |-> tiff.tiff_num, tiff_base |-> tiff_base,
                            num_entries |-> U16LE(b2), i |-> 0]
                /\ pc' = "entry"
    /\ UNCHANGED <<api, file, ext, metadata, result, box, search, child, call,
                   strategies, input,
                   written, sidecars, last, calls>>

\* lines 393-394: after the last located directory
FullTiffsDone ==
    /\ Full /\ pc = "tiff" /\ tiff.tiff_num >= Len(search.tiff_indices)
    /\ IF metadata # EmptyDict
       THEN pc' = "done" /\ result' = DictResult
       ELSE pc' = "navigate" /\ result' = result
    /\ UNCHANGED <<api, file, ext, pos, log, metadata, box, search, tiff, child,
                   call, strategies, input,
                   written, sidecars, last, calls>>

\* entry = f.read(12) and its fields (lines 306-311, 337-342, 367-372)
Entry12 == ReadBytes(file, pos, 12)
EntryTag == U16LE(SubSeq(Entry12, 1, 2))
EntryType == U16LE(SubSeq(Entry12, 3, 4))
EntryCount == U32LE(SubSeq(Entry12, 5, 8))
EntrySlot == SubSeq(Entry12, 9, 12)

\* lines 305-308: the entry loop of a main directory ends (range exhausted, or a
\* short entry breaks it); the for loop goes on to the next located directory
FullEntryEnd ==
    /\ Full /\ pc = "entry"
    /\ \/ /\ tiff.i >= tiff.num_entries
          /\ UNCHANGED <<pos, log>>
       \/ /\ tiff.i < tiff.num_entries /\ Len(Entry12) < 12
          /\ pos' = pos + Len(Entry12)
          /\ log' = Append(log, ReadEv(pos, 12))
    /\ tiff' = NextTiff /\ pc' = "tiff"
    /\ UNCHANGED <<api, file, ext, metadata, result, box, search, child, call,
                   strategies, input,
                   written, sidecars, last, calls>>

\* lines 384-386: an ordinary entry of a main directory
FullEntryValue ==
    /\ Full /\ pc = "entry"
    /\ tiff.i < tiff.num_entries /\ Len(Entry12) = 12
    /\ EntryTag \notin {EXIF_TAG_EXIF_IFD_POINTER, TAG_SUB_IFDS}
    /\ LET out == format_tag_value(EntryType, EntryCount, EntrySlot, file, pos + 12,
                                   tiff.tiff_base)
       IN  /\ metadata' = Put(metadata,
                              Prefix(tiff.tiff_num) \o TagName(tiff.tiff_num, EntryTag),
                              out.ret)
           /\ written' = Append(written, Prefix(tiff.tiff_num) \o TagName(tiff.tiff_num, EntryTag))
           /\ call' = CallRecord(EntryType, EntryCount, EntrySlot, pos + 12,
                                 tiff.tiff_base, out)
           /\ pos' = out.pos
           /\ log' = log \o <<ReadEv(pos, 12)>> \o LogReads(out.reads)
    /\ tiff' = [tiff EXCEPT !.i = @ + 1]
    /\ UNCHANGED <<api, file, ext, pc, result, box, search, child, strategies, input,
                   sidecars, last, calls>>

\* lines 324-334 and 355-364: an ExifIFDPointer or SubIFDs entry.  The child's
\* entry count is read at tiff_base + offset; a short read raises into line 388
\* and the rest of this located directory is abandoned.
FullChildOpen ==
    /\ Full /\ pc = "entry"
    /\ tiff.i < tiff.num_entries /\ Len(Entry12) = 12
    /\ EntryTag \in {EXIF_TAG_EXIF_IFD_POINTER, TAG_SUB_IFDS}
    /\ LET at == tiff.tiff_base + U32LE(EntrySlot)
           b2 == ReadBytes(file, at, 2)
       IN  IF Len(b2) < 2
           THEN /\ pos' = Max(at, Len(file))
                /\ log' = log \o <<ReadEv(pos, 12), ReadEv(at, 2), RaiseEv(at)>>
                /\ tiff' = NextTiff /\ pc' = "tiff"
                /\ child' = child
           ELSE /\ pos' = at + 2
                /\ log' = log \o <<ReadEv(pos, 12), ReadEv(at, 2)>>
                /\ child' = [kind |-> IF EntryTag = TAG_SUB_IFDS THEN "sub" ELSE "exif",
                             n |-> U16LE(b2), j |-> 0, current_ifd_pos |-> pos + 12]
                /\ pc' = "child"
                /\ tiff' = tiff
    /\ UNCHANGED <<api, file, ext, metadata, result, box, search, call, strategies,
                   input,
                   written, sidecars, last, calls>>

\* lines 336-350 and 366-380: one entry of a child directory
FullChildEntry ==
    /\ Full /\ pc = "child"
    /\ child.j < child.n /\ Len(Entry12) = 12
    /\ LET out == format_tag_value(EntryType, EntryCount, EntrySlot, file, pos + 12,
                                   tiff.tiff_base)
           name == IF child.kind = "exif" THEN ExifTagName(EntryTag)
                   ELSE SubTagName(EntryTag)
       IN  /\ metadata' = Put(metadata, Prefix(tiff.tiff_num) \o name, out.ret)
           /\ written' = Append(written, Prefix(tiff.tiff_num) \o name)
           /\ call' = CallRecord(EntryType, EntryCount, EntrySlot, pos + 12,
                                 tiff.tiff_base, out)
           /\ pos' = out.pos
           /\ log' = log \o <<ReadEv(pos, 12)>> \o LogReads(out.reads)
    /\ child' = [child EXCEPT !.j = @ + 1]
    /\ UNCHANGED <<api, file, ext, pc, result, box, search, tiff, strategies, input,
                   sidecars, last, calls>>

\* lines 338-339/352 and 368-369/382: the child loop ends and f.seek(
\* current_ifd_pos) returns to the parent's next entry
FullChildClose ==
    /\ Full /\ pc = "child"
    /\ \/ /\ child.j >= child.n
          /\ log' = log
       \/ /\ child.j < child.n /\ Len(Entry12) < 12
          /\ log' = Append(log, ReadEv(pos, 12))
    /\ pos' = child.current_ifd_pos
    /\ tiff' = [tiff EXCEPT !.i = @ + 1]
    /\ child' = NoChild
    /\ pc' = "entry"
    /\ UNCHANGED <<api, file, ext, metadata, result, box, search, call, strategies,
                   input,
                   written, sidecars, last, calls>>

\* lines 396-400
FullNavigate ==
    /\ Full /\ pc = "navigate"
    /\ pos' = NextBoxAt(box)
    /\ pc' = "walk"
    /\ UNCHANGED <<api, file, ext, log, metadata, result, box, search, tiff, child,
                   call, strategies, input,
                   written, sidecars, last, calls>>

NextFull ==
    \/ FullWalkEnd \/ FullBoxHeader \/ FullUuid \/ FullTiffOpen \/ FullTiffsDone
    \/ FullEntryEnd \/ FullEntryValue \/ FullChildOpen \/ FullChildEntry
    \/ FullChildClose \/ FullNavigate

-----------------------------------------------------------------------------
(* The date-only strategies of snappy_raw_rip.py                            *)

Date == api = "_get_exif_date"

DecodeEv(tiff_base, ifd_offset, deepest) ==
    [e |-> "decode", at |-> tiff_base, n |-> ifd_offset, depth |-> deepest]

\* every strategy's last lines: except Exception: return None
DateExcept == None

\* What a one-step strategy did: the value returned and its log.
Did(ret, events) == [ret |-> ret, events |-> events]

\* date_str = _find_datetime_in_ifd(...); return _parse_date_string(date_str) if
\* date_str else None  -- with the call's events
DateOf(found) ==
    Let(found.ret, LAMBDA date_str :
        IF Truthy(date_str) THEN parse_date_string(date_str.v) ELSE None)

SignatureOrder(b) ==
    IF b = TIFF_SIGNATURE_LE THEN "<" ELSE IF b = TIFF_SIGNATURE_BE THEN ">" ELSE ""

\* if ifd_offset < 8 or ifd_offset > 65536: return None   (lines 135, 275, 281)
MAX_IFD_OFFSET_AT_START == 65536
BadIfdOffsetAtStart(ifd_offset) ==
    ifd_offset < MIN_IFD_OFFSET \/ ifd_offset > MAX_IFD_OFFSET_AT_START

\* _extract_date_from_tiff_raw, lines 117-141
extract_date_from_tiff_raw(f) ==
    LET header == ReadBytes(f, 0, 8)
        byte_order == SignatureOrder(SubSeq(header, 1, 4))
        ifd_offset == U32(byte_order, SubSeq(header, 5, 8))
    IN  IF Len(header) < 8 \/ byte_order = "" THEN Did(None, <<ReadEv(0, 8)>>)
        ELSE IF BadIfdOffsetAtStart(ifd_offset) THEN Did(None, <<ReadEv(0, 8)>>)
        ELSE Let(find_datetime_in_ifd(f, ifd_offset, 0, byte_order, 1), LAMBDA found :
                 Did(DateOf(found),
                     <<ReadEv(0, 8), DecodeEv(0, ifd_offset, found.deepest)>>
                     \o LogReads(found.reads)))

\* b'FUJIFILM'
FUJIFILM == <<70, 85, 74, 73, 70, 73, 76, 77>>
\* b'\xff\xd8\xff\xe1'
JPEG_SOI_APP1 == <<255, 216, 255, 225>>
\* f.seek(84)
RAF_POINTER_AT == 84
\* if exif_offset == 0 or exif_offset > 10000000
RAF_MAX_OFFSET == 10000000
\* tiff_base = exif_offset + 12
RAF_EXIF_SKIP == 12

\* _extract_date_from_raf, lines 143-192
extract_date_from_raf(f) ==
    LET header == ReadBytes(f, 0, 8)
        b4 == ReadBytes(f, RAF_POINTER_AT, 4)
        exif_offset == U32BE(b4)
        jpeg_header == ReadBytes(f, exif_offset, 12)
        marked == SubSeq(jpeg_header, 1, 4) = JPEG_SOI_APP1
        tiff_base == IF marked THEN exif_offset + RAF_EXIF_SKIP ELSE exif_offset
        tiff_header == IF marked THEN ReadBytes(f, tiff_base, 8)
                       ELSE SubSeq(jpeg_header, 1, 8)
        byte_order == SignatureOrder(SubSeq(tiff_header, 1, 4))
        ifd_offset == U32(byte_order, SubSeq(tiff_header, 5, 8))
        ev1 == <<ReadEv(0, 8)>>
        ev2 == Append(ev1, ReadEv(RAF_POINTER_AT, 4))
        ev3 == Append(ev2, ReadEv(exif_offset, 12))
        ev4 == IF marked THEN Append(ev3, ReadEv(tiff_base, 8)) ELSE ev3
    IN  IF header # FUJIFILM THEN Did(None, ev1)
        ELSE IF Len(b4) < 4 THEN Did(DateExcept, Append(ev2, RaiseEv(RAF_POINTER_AT)))
        ELSE IF exif_offset = 0 \/ exif_offset > RAF_MAX_OFFSET THEN Did(None, ev2)
        ELSE IF Len(jpeg_header) < 12 THEN Did(None, ev3)
        ELSE IF Len(tiff_header) < 8 \/ byte_order = "" THEN Did(None, ev4)
        ELSE Let(find_datetime_in_ifd(f, ifd_offset, tiff_base, byte_order, 1),
                 LAMBDA found :
                 Did(DateOf(found),
                     Append(ev4, DecodeEv(tiff_base, ifd_offset, found.deepest))
                     \o LogReads(found.reads)))

\* chunk = f.read(4096)
SCAN_WINDOW == 4096

\* lines 290-297: one round of the loop over (signature, byte order), on the chunk
\* [tried, ret, events]: tried says a date string was found and the function returned
ScanFor(f, chunk, sig, byte_order) ==
    Let(FindFrom(chunk, sig, 0), LAMBDA idx :
    LET ifd_offset == U32(byte_order, SubSeq(chunk, idx + 5, idx + 8))
    IN  IF idx = -1 \/ idx + 8 > Len(chunk) THEN [hit |-> FALSE, ret |-> None, events |-> <<>>]
        ELSE IF ~(MIN_IFD_OFFSET <= ifd_offset /\ ifd_offset <= MAX_IFD_OFFSET)
        THEN [hit |-> FALSE, ret |-> None, events |-> <<>>]
        ELSE Let(find_datetime_in_ifd(f, ifd_offset, idx, byte_order, 1), LAMBDA found :
                 [hit |-> Truthy(found.ret), ret |-> DateOf(found),
                  events |-> <<DecodeEv(idx, ifd_offset, found.deepest)>>
                             \o LogReads(found.reads)]))

\* _extract_date_generic_scan, lines 266-301
extract_date_generic_scan(f) ==
    LET header == ReadBytes(f, 0, 8)
        byte_order == SignatureOrder(SubSeq(header, 1, 4))
        ifd_offset == U32(byte_order, SubSeq(header, 5, 8))
        atStart == Len(header) >= 8 /\ byte_order # ""
                   /\ ~BadIfdOffsetAtStart(ifd_offset)
    IN  Let(IF atStart THEN find_datetime_in_ifd(f, ifd_offset, 0, byte_order, 1)
            ELSE Found(None, 0, <<>>, 0), LAMBDA found :
        Let(ReadBytes(f, 0, SCAN_WINDOW), LAMBDA chunk :
        Let(ScanFor(f, chunk, TIFF_SIGNATURE_LE, "<"), LAMBDA le :
        Let(ScanFor(f, chunk, TIFF_SIGNATURE_BE, ">"), LAMBDA be :
            LET ev1 == <<ReadEv(0, 8)>>
                       \o (IF atStart
                           THEN <<DecodeEv(0, ifd_offset, found.deepest)>>
                                \o LogReads(found.reads)
                           ELSE <<>>)
                ev2 == Append(ev1, ReadEv(0, SCAN_WINDOW))
            IN  IF atStart /\ Truthy(found.ret) THEN Did(DateOf(found), ev1)
                ELSE IF le.hit THEN Did(le.ret, ev2 \o le.events)
                ELSE IF be.hit THEN Did(be.ret, ev2 \o le.events \o be.events)
                ELSE Did(None, ev2 \o le.events \o be.events)))))

-----------------------------------------------------------------------------
(* _get_exif_date(photo_path), lines 303-314                                *)

\* str.lower() on the suffix
RECURSIVE Lower(_)
Lower(str) ==
    IF str = <<>> THEN <<>>
    ELSE <<IF Head(str) \in 65..90 THEN Head(str) + 32 ELSE Head(str)>> \o Lower(Tail(str))

\* {".cr3"}
CR3_EXTENSIONS == {<<46, 99, 114, 51>>}
\* {".cr2", ".nef", ".nrw", ".pef", ".iiq", ".3fr", ".fff", ".dng"}
TIFF_BASED_RAW_EXTENSIONS ==
    {<<46, 99, 114, 50>>,
     <<46, 110, 101, 102>>,
     <<46, 110, 114, 119>>,
     <<46, 112, 101, 102>>,
     <<46, 105, 105, 113>>,
     <<46, 51, 102, 114>>,
     <<46, 102, 102, 102>>,
     <<46, 100, 110, 103>>}
\* {".raf"}
RAF_EXTENSIONS == {<<46, 114, 97, 102>>}

\* The same choice made on the suffix as written, without str.lower().
StrategyFor_CaseSensitive(suffix) ==
    IF suffix \in CR3_EXTENSIONS THEN "_extract_date_from_cr3"
    ELSE IF suffix \in TIFF_BASED_RAW_EXTENSIONS THEN "_extract_date_from_tiff_raw"
    ELSE IF suffix \in RAF_EXTENSIONS THEN "_extract_date_from_raf"
    ELSE "_extract_date_generic_scan"

\* the if / elif chain of lines 307-314
StrategyFor(suffix) ==
    LET e == Lower(suffix)
    IN  IF e \in CR3_EXTENSIONS THEN "_extract_date_from_cr3"
        ELSE IF e \in TIFF_BASED_RAW_EXTENSIONS THEN "_extract_date_from_tiff_raw"
        ELSE IF e \in RAF_EXTENSIONS THEN "_extract_date_from_raf"
        ELSE "_extract_date_generic_scan"

\* A dispatcher that turns an unavailable result into the epoch date.
Dispatched_Default(ret) == IF ret = None THEN PyDate(1970, 1, 1) ELSE ret

\* What _get_exif_date does with the value its strategy returned: it returns it.
Dispatched(ret) == ret

\* lines 305-314: the strategy is chosen and called
GetExifDate ==
    /\ Date /\ pc = "dispatch"
    /\ strategies' = Append(strategies, StrategyFor(ext))
    /\ pc' = StrategyFor(ext)
    /\ UNCHANGED <<api, file, ext, pos, log, metadata, result, box, search, tiff,
                   child, call, input,
                   written, sidecars, last, calls>>

DateTiffRaw ==
    /\ Date /\ pc = "_extract_date_from_tiff_raw"
    /\ \E did \in {extract_date_from_tiff_raw(file)} :
           result' = Dispatched(did.ret) /\ log' = log \o did.events
    /\ pc' = "done"
    /\ UNCHANGED <<api, file, ext, pos, metadata, box, search, tiff, child, call,
                   strategies, input,
                   written, sidecars, last, calls>>

DateRaf ==
    /\ Date /\ pc = "_extract_date_from_raf"
    /\ \E did \in {extract_date_from_raf(file)} :
           result' = Dispatched(did.ret) /\ log' = log \o did.events
    /\ pc' = "done"
    /\ UNCHANGED <<api, file, ext, pos, metadata, box, search, tiff, child, call,
                   strategies, input,
                   written, sidecars, last, calls>>

DateGenericScan ==
    /\ Date /\ pc = "_extract_date_generic_scan"
    /\ \E did \in {extract_date_generic_scan(file)} :
           result' = Dispatched(did.ret) /\ log' = log \o did.events
    /\ pc' = "done"
    /\ UNCHANGED <<api, file, ext, pos, metadata, box, search, tiff, child, call,
                   strategies, input,
                   written, sidecars, last, calls>>

-----------------------------------------------------------------------------
(* _extract_date_from_cr3(file_path), lines 194-264                         *)

CR3_STRATEGY == "_extract_date_from_cr3"

\* while f.tell() < file_size fails: return None (line 262)
DateWalkEnd ==
    /\ Date /\ pc = CR3_STRATEGY /\ pos >= Len(file)
    /\ pc' = "done" /\ result' = Dispatched(None)
    /\ UNCHANGED <<api, file, ext, pos, log, metadata, box, search, tiff, child,
                   call, strategies, input,
                   written, sidecars, last, calls>>

\* lines 201-218: one box header; here a short extended size breaks the loop too
DateBoxHeader ==
    /\ Date /\ pc = CR3_STRATEGY /\ pos < Len(file)
    /\ LET h == ReadBoxHeader(file, pos)
       IN  /\ pos' = h.pos
           /\ box' = BoxOf(h)
           /\ log' = log \o LogReads(h.reads)
           /\ IF h.status # "ok" \/ BoxRejected(h.box_size, Len(file))
              THEN pc' = "done" /\ result' = Dispatched(None)
              ELSE /\ pc' = IF h.box_type = Type_uuid THEN "uuid" ELSE "navigate"
                   /\ result' = result
    /\ UNCHANGED <<api, file, ext, metadata, search, tiff, child, call, strategies,
                   input,
                   written, sidecars, last, calls>>

\* min(200000, box_size - header_len - 16)
DateWindow(b) == Min(LOOKAHEAD, b.box_size - b.header_len - 16)

\* chunk = f.read(n): a BufferedReader reads to the end of the file for n == -1
\* and raises ValueError for any other negative n
DateChunk(f, search_start, n) ==
    IF n = -1 THEN ReadBytes(f, search_start, Len(f)) ELSE ReadBytes(f, search_start, n)

\* lines 221-231: the 16 bytes after the header; for the Canon box the window is
\* read from the cursor
DateUuid ==
    /\ Date /\ pc = "uuid"
    /\ LET uuid_bytes == ReadBytes(file, pos, 16)
           search_start == pos + 16
           n == DateWindow(box)
       IN  IF uuid_bytes # CANON_CMT1_UUID
           THEN /\ pos' = pos + Len(uuid_bytes)
                /\ log' = Append(log, ReadEv(pos, 16))
                /\ pc' = "navigate"
                /\ UNCHANGED <<search, result>>
           ELSE IF n < -1
           THEN /\ pos' = search_start
                /\ log' = log \o <<ReadEv(pos, 16), RaiseEv(search_start)>>
                /\ pc' = "done" /\ result' = Dispatched(DateExcept)
                /\ UNCHANGED search
           ELSE /\ pos' = search_start + Len(DateChunk(file, search_start, n))
                /\ log' = log \o <<ReadEv(pos, 16), ReadEv(search_start, n)>>
                /\ search' = [search_start |-> search_start, tiff_indices |-> <<>>,
                              search_pos |-> 0]
                /\ pc' = "scan"
                /\ UNCHANGED result
    /\ UNCHANGED <<api, file, ext, metadata, box, tiff, child, call, strategies,
                   input,
                   written, sidecars, last, calls>>

\* the chunk the scan loop works on
ScanChunk == DateChunk(file, search.search_start, DateWindow(box))

\* lines 233-235: the little-endian signature from search_pos on, and only when
\* there is none the big-endian one
NextSignature(chunk, search_pos) ==
    Let(FindFrom(chunk, TIFF_SIGNATURE_LE, search_pos), LAMBDA le :
        IF le # -1 THEN le ELSE FindFrom(chunk, TIFF_SIGNATURE_BE, search_pos))

\* while search_pos < len(chunk) - 8, and a signature is found
ScanGoesOn ==
    \E chunk \in {ScanChunk} :
        /\ search.search_pos < Len(chunk) - 8
        /\ NextSignature(chunk, search.search_pos) # -1

\* if 8 <= ifd_offset <= 50000
Cr3IfdOffsetOk(ifd_offset) == MIN_IFD_OFFSET <= ifd_offset /\ ifd_offset <= MAX_IFD_OFFSET

\* lines 232-254: one located signature.  A signature in the last 7 bytes of the
\* chunk leaves fewer than 4 bytes for the offset and struct.unpack raises.
DateCandidate ==
    /\ Date /\ pc = "scan" /\ ScanGoesOn
    /\ \E chunk \in {ScanChunk} :
       \E tiff_idx \in {NextSignature(chunk, search.search_pos)} :
       LET tiff_base == search.search_start + tiff_idx
           byte_order == IF SubSeq(chunk, tiff_idx + 1, tiff_idx + 2) = <<73, 73>>
                         THEN "<" ELSE ">"
           b4 == SubSeq(chunk, tiff_idx + 5, Min(tiff_idx + 8, Len(chunk)))
           ifd_offset == U32(byte_order, b4)
       IN  \E found \in {IF Len(b4) < 4 THEN Found(None, 0, <<>>, 0)
                         ELSE find_datetime_in_ifd(file, ifd_offset, tiff_base,
                                                   byte_order, 1)} :
           IF Len(b4) < 4
           THEN /\ pc' = "done" /\ result' = Dispatched(DateExcept)
                /\ log' = Append(log, RaiseEv(tiff_base))
                /\ UNCHANGED <<pos, search, tiff>>
           ELSE IF ~Cr3IfdOffsetOk(ifd_offset)
           THEN /\ search' = [search EXCEPT !.search_pos = tiff_idx + 1,
                                            !.tiff_indices = Append(@, tiff_idx)]
                /\ UNCHANGED <<pc, result, pos, log, tiff>>
           ELSE /\ log' = log \o <<DecodeEv(tiff_base, ifd_offset, found.deepest)>>
                              \o LogReads(found.reads)
                /\ pos' = found.pos
                /\ tiff' = [tiff EXCEPT !.tiff_base = tiff_base]
                /\ search' = [search EXCEPT !.search_pos = tiff_idx + 1,
                                            !.tiff_indices = Append(@, tiff_idx)]
                /\ IF Truthy(found.ret)
                   THEN pc' = "done" /\ result' = Dispatched(parse_date_string(found.ret.v))
                   ELSE UNCHANGED <<pc, result>>
    /\ UNCHANGED <<api, file, ext, metadata, box, child, call, strategies, input,
                   written, sidecars, last, calls>>

\* the scan loop ends
DateScanEnd ==
    /\ Date /\ pc = "scan" /\ ~ScanGoesOn
    /\ pc' = "navigate"
    /\ UNCHANGED <<api, file, ext, pos, log, metadata, result, box, search, tiff,
                   child, call, strategies, input,
                   written, sidecars, last, calls>>

\* lines 256-260
DateNavigate ==
    /\ Date /\ pc = "navigate"
    /\ pos' = NextBoxAt(box)
    /\ pc' = CR3_STRATEGY
    /\ UNCHANGED <<api, file, ext, log, metadata, result, box, search, tiff, child,
                   call, strategies, input,
                   written, sidecars, last, calls>>

NextDate ==
    \/ GetExifDate \/ DateTiffRaw \/ DateRaf \/ DateGenericScan
    \/ DateWalkEnd \/ DateBoxHeader \/ DateUuid \/ DateCandidate \/ DateScanEnd
    \/ DateNavigate

-----------------------------------------------------------------------------
(* The input files.  A file is put together from an `input` record:        *)
(*   family  what kind of file it is                                        *)
(*   dirs    the tag directories in it, each [bo, kind, text]               *)
(*   layout  the boxes around the directories                               *)
(*   cut     the length the file is truncated to                            *)

\* The most tag directories a metadata box of the "multi" family holds.
MaxDirs == 2

\* The 19 characters of a DateTimeOriginal value; "empty" is 20 NUL bytes.
Texts ==
    ("valid" :> <<50, 48, 50, 52, 58, 48, 51, 58, 49, 53, 32, 49, 48, 58, 51, 48, 58, 48, 48>>)    \* 2024:03:15 10:30:00
    @@ ("other" :> <<50, 48, 50, 51, 58, 49, 50, 58, 51, 49, 32, 50, 51, 58, 53, 57, 58, 53, 57>>)    \* 2023:12:31 23:59:59
    @@ ("zero" :> <<48, 48, 48, 48, 58, 48, 48, 58, 48, 48, 32, 48, 48, 58, 48, 48, 58, 48, 48>>)    \* 0000:00:00 00:00:00
    @@ ("iso" :> <<50, 48, 50, 52, 45, 48, 51, 45, 49, 53, 84, 49, 48, 58, 51, 48, 58, 48, 48>>)    \* 2024-03-15T10:30:00
    @@ ("lenient" :> <<50, 48, 50, 52, 58, 51, 58, 49, 53, 32, 32, 49, 48, 58, 51, 48, 58, 48, 48>>)    \* 2024:3:15 _10:30:00
    @@ ("feb30" :> <<50, 48, 50, 52, 58, 48, 50, 58, 51, 48, 32, 49, 48, 58, 51, 48, 58, 48, 48>>)    \* 2024:02:30 10:30:00
    @@ ("empty" :> <<>>)

\* the value as stored: NUL-padded to count = 20
TextBytes(text) == Texts[text] \o [k \in 1..(20 - Len(Texts[text])) |-> 0]

Sig(bo) == IF bo = "<" THEN TIFF_SIGNATURE_LE ELSE TIFF_SIGNATURE_BE

\* one 12-byte directory entry: tag id, type, count, value slot
Entry(bo, tag, type, count, slot) ==
    P16(bo, tag) \o P16(bo, type) \o P32(bo, count) \o slot

\* "Can", NUL: an inline ASCII value of count 4
InlineMake == <<67, 97, 110, 0>>

\* One tag directory with its 8-byte header; offsets are relative to its start.
\*   date       DateTimeOriginal (ASCII, count 20, out of line at 22)
\*   make       Make (ASCII, count 4, inline)
\*   fnumber    FNumber (RATIONAL 4/1, out of line at 22)
\*   exif       ExifIFDPointer -> child at 34 holding DateTimeOriginal; then Make
\*   big        as date, but the entry count field says 201
\*   bigchild   as exif, but the child's entry count field says 500
\*   sub        as exif, but through a SubIFDs pointer
\*   loop       ExifIFDPointer -> the directory itself (offset 8)
\*   both       DateTimeOriginal (the text, at 68), then ExifIFDPointer -> child
\*              at 34 holding DateTimeOriginal too ("2023:12:31 23:59:59", at 48)
\*   far        a header whose first-directory offset is 60000, and 8 bytes of 0
\*   beyond     the same with offset 70000
\*   badptr     Make, ExifIFDPointer -> offset 60000, which is outside the file,
\*              then DateTimeOriginal (the text, at 46)
\*   badrational  FNumber (RATIONAL) whose value is at offset 60000, outside the
\*              file, then Make
\*   short0     Orientation (SHORT) with count 0, then Make
\*   longtext   DateTimeOriginal whose count field says 300000 bytes of text
\*   vendor     tag 7 (in TIFF5_CANON_TAGS only), Make (in TIFF_TAGS only) and
\*              tag 9 (in neither), each ASCII, count 4, inline
DirBytes(d) ==
    LET bo == d.bo
        head(n) == Sig(bo) \o P32(bo, 8) \o P16(bo, n)
        dto(at) == Entry(bo, EXIF_TAG_DATETIME_ORIGINAL, 2, 20, P32(bo, at))
        make == Entry(bo, 271, 2, 4, InlineMake)
        ptr == Entry(bo, EXIF_TAG_EXIF_IFD_POINTER, 4, 1, P32(bo, 34))
    IN  CASE d.kind = "date" -> head(1) \o dto(22) \o TextBytes(d.text)
          [] d.kind = "make" -> head(1) \o make
          [] d.kind = "fnumber" ->
                head(1) \o Entry(bo, 33437, 5, 1, P32(bo, 22)) \o P32(bo, 4) \o P32(bo, 1)
          [] d.kind = "exif" ->
                head(2) \o ptr \o make \o P16(bo, 1) \o dto(48) \o TextBytes(d.text)
          [] d.kind = "sub" ->
                head(2) \o Entry(bo, TAG_SUB_IFDS, 4, 1, P32(bo, 34)) \o make
                \o P16(bo, 1) \o dto(48) \o TextBytes(d.text)
          [] d.kind = "both" ->
                head(2) \o dto(68) \o ptr \o P16(bo, 1) \o dto(48)
                \o TextBytes("other") \o TextBytes(d.text)
          [] d.kind = "loop" ->
                head(1) \o Entry(bo, EXIF_TAG_EXIF_IFD_POINTER, 4, 1, P32(bo, 8))
          [] d.kind = "big" -> head(201) \o dto(22) \o TextBytes(d.text)
          [] d.kind = "far" -> Sig(bo) \o P32(bo, 60000) \o [k \in 1..8 |-> 0]
          [] d.kind = "beyond" -> Sig(bo) \o P32(bo, 70000) \o [k \in 1..8 |-> 0]
          [] d.kind = "badrational" ->
                head(2) \o Entry(bo, 33437, 5, 1, P32(bo, 60000)) \o make
          [] d.kind = "short0" -> head(2) \o Entry(bo, 274, 3, 0, P32(bo, 0)) \o make
          [] d.kind = "longtext" ->
                head(1) \o Entry(bo, EXIF_TAG_DATETIME_ORIGINAL, 2, 300000, P32(bo, 22))
                \o TextBytes(d.text)
          [] d.kind = "vendor" ->
                head(3) \o Entry(bo, 7, 2, 4, InlineMake) \o make
                \o Entry(bo, 9, 2, 4, InlineMake)
          [] d.kind = "badptr" ->
                head(3) \o make
                \o Entry(bo, EXIF_TAG_EXIF_IFD_POINTER, 4, 1, P32(bo, 60000))
                \o dto(46) \o TextBytes(d.text)
          [] d.kind = "bigchild" ->
                head(2) \o ptr \o make \o P16(bo, 500) \o dto(48) \o TextBytes(d.text)

RECURSIVE Payload(_)
Payload(dirs) == IF dirs = <<>> THEN <<>> ELSE DirBytes(Head(dirs)) \o Payload(Tail(dirs))

BE64(n) == <<0, 0, 0, 0>> \o BE32(n)
\* a box with an 8-byte header and the size it really has
Box(type, payload) == BE32(8 + Len(payload)) \o type \o payload
\* a box header that declares `size`
Header(size, type) == BE32(size) \o type
\* 'ftyp' with brand 'crx ', 16 bytes
Ftyp == Box(Type_ftyp, <<99, 114, 120, 32, 0, 0, 0, 1>>)
CanonBox(payload) == Box(Type_uuid, CANON_CMT1_UUID \o payload)
OtherUuid == [k \in 1..16 |-> 17]

\* The container layouts: the boxes put around the directories' bytes P.
Container(layout, P) ==
    LET canon == CanonBox(P)
        total == 16 + 8 + Len(canon)
    IN  CASE layout = "plain" -> Ftyp \o canon
          [] layout = "nested" -> Ftyp \o Box(Type_moov, canon)
          [] layout = "extended" ->
                Ftyp \o BE32(1) \o Type_uuid \o BE64(32 + Len(P)) \o CANON_CMT1_UUID \o P
          [] layout = "zero" -> Ftyp \o Header(0, Type_free) \o canon
          [] layout = "huge" -> Ftyp \o Header(total + 1, Type_free) \o canon
          [] layout = "overrun_moov" -> Ftyp \o Header(Len(canon) + 12, Type_moov) \o canon
          [] layout = "overrun_free" -> Ftyp \o Header(Len(canon) + 12, Type_free) \o canon
          [] layout = "overrun_uuid" ->
                Ftyp \o Header(Len(canon) + 4, Type_uuid) \o CANON_CMT1_UUID \o P
          [] layout = "short_extended" -> Ftyp \o Header(1, Type_uuid) \o <<0, 0, 0>>
          [] layout = "other_uuid" ->
                Ftyp \o Box(Type_uuid, OtherUuid \o <<1, 2, 3, 4>>) \o canon
          [] layout = "empty_first" -> Ftyp \o CanonBox(<<>>) \o canon
          [] layout = "two_boxes" ->
                Ftyp \o canon
                \o CanonBox(DirBytes([bo |-> "<", kind |-> "date", text |-> "other"]))
          [] layout = "trailing" -> Ftyp \o canon \o Box(Type_free, <<1, 2, 3, 4>>)
          [] layout = "small" -> Ftyp \o Header(4, Type_free) \o canon
          [] layout = "window_minus_1" ->
                Ftyp \o Header(23, Type_uuid) \o CANON_CMT1_UUID \o P
          [] layout = "window_negative" ->
                Ftyp \o Header(20, Type_uuid) \o CANON_CMT1_UUID \o P

Layouts == {"plain", "nested", "extended", "zero", "huge", "overrun_moov",
            "overrun_free", "overrun_uuid", "short_extended", "other_uuid",
            "empty_first", "two_boxes", "trailing", "small", "window_minus_1", "window_negative"}

\* A RAF file: 'FUJIFILM', the pointer field at byte 84, and at the place it
\* points to (88) the preview's 12 bytes (marker or not) and the directory.
RafFile(layout, P) ==
    LET pad == [k \in 1..(RAF_POINTER_AT - 8) |-> 0]
        jpeg == JPEG_SOI_APP1 \o <<0, 40, 69, 120, 105, 102, 0, 0>>
        nomark == <<255, 216, 255, 224, 0, 40, 69, 120, 105, 102, 0, 0>>
    IN  CASE layout = "jpeg" -> FUJIFILM \o pad \o BE32(88) \o jpeg \o P
          [] layout = "direct" -> FUJIFILM \o pad \o BE32(88) \o P
          [] layout = "nomark" -> FUJIFILM \o pad \o BE32(88) \o nomark \o P
          [] layout = "nopointer" -> FUJIFILM \o pad \o BE32(0) \o jpeg \o P
          [] layout = "short" -> FUJIFILM \o pad

RafLayouts == {"jpeg", "direct", "nomark", "nopointer", "short"}

Junk == <<1, 2, 3, 4, 5>>

Untruncated(in) ==
    CASE in.family \in {"multi", "single", "layout", "cut", "ordinal"} ->
            Container(in.layout, Payload(in.dirs))
      [] in.family = "raw" -> Payload(in.dirs)
      [] in.family = "scan" -> Junk \o Payload(in.dirs)
      [] in.family = "raf" -> RafFile(in.layout, Payload(in.dirs))

\* the bytes of the file an input record describes
Build(in) ==
    IF in.family = "cut" THEN SubSeq(Untruncated(in), 1, in.cut) ELSE Untruncated(in)

Dir(bo, kind, text) == [bo |-> bo, kind |-> kind, text |-> text]
Input(family, dirs, layout) == [family |-> family, dirs |-> dirs, layout |-> layout, cut |-> 0]

Orders == {"<", ">"}

\* the directories of the "multi" family
MultiDirs ==
    {Dir("<", "date", "valid"), Dir("<", "date", "other"), Dir(">", "date", "valid"),
     Dir("<", "date", "iso"), Dir("<", "date", "empty"), Dir("<", "make", "empty")}

\* every kind of directory, in both byte orders
SingleDirs ==
    {Dir(bo, "date", t) : bo \in Orders, t \in DOMAIN Texts}
    \cup {Dir(bo, k, "valid") : bo \in Orders, k \in {"exif", "sub", "big", "bigchild", "both", "longtext"}}
    \cup {Dir(bo, "exif", t) : bo \in Orders, t \in {"zero", "empty"}}
    \cup {Dir(bo, k, "empty") : bo \in Orders, k \in {"make", "fnumber", "loop", "far", "beyond", "badrational", "short0"}}
    \cup {Dir(bo, "badptr", "valid") : bo \in Orders}

RECURSIVE SeqsUpTo(_, _)
SeqsUpTo(S, n) ==
    IF n = 0 THEN {<<>>}
    ELSE LET shorter == SeqsUpTo(S, n - 1)
         IN  shorter \cup {Append(q, x) : q \in shorter, x \in S}

\* the directories of the "ordinal" family: five and six directories in one
\* metadata box, and five with a candidate before them that is skipped for its
\* first-directory offset or for its entry count
OrdinalDirs ==
    LET v == Dir("<", "vendor", "empty")
    IN  {<<v, v, v, v, v>>, <<v, v, v, v, v, v>>,
         <<Dir("<", "far", "empty"), v, v, v, v>>,
         <<v, Dir("<", "big", "valid"), v, v, v, v>>}

\* the file every truncation is taken of
CutDirs == <<Dir("<", "exif", "valid"), Dir("<", "date", "other")>>

Inputs ==
    {Input("multi", dirs, "plain") : dirs \in SeqsUpTo(MultiDirs, MaxDirs)}
    \cup {Input("single", <<d>>, "plain") : d \in SingleDirs}
    \cup {Input("ordinal", dirs, "plain") : dirs \in OrdinalDirs}
    \cup {Input("layout", <<d>>, l) :
            d \in {Dir("<", "date", "valid"), Dir(">", "exif", "valid")}, l \in Layouts}
    \cup {[Input("cut", CutDirs, "plain") EXCEPT !.cut = n] :
            n \in 0..Len(Container("plain", Payload(CutDirs)))}
    \cup {Input("raw", <<d>>, "") : d \in SingleDirs}
    \cup {Input("scan", <<d>>, "") : d \in {Dir("<", "date", "valid"), Dir(">", "exif", "other")}}
    \cup {Input("raf", <<d>>, l) :
            d \in {Dir("<", "date", "valid"), Dir(">", "exif", "other"),
                   Dir("<", "beyond", "empty")},
            l \in RafLayouts}

\* photo_path.suffix: .cr3 .CR3 .cr2 .DNG .raf .Raf .jpg .cr3x and no suffix
Suffixes ==
    {<<46, 99, 114, 51>>, <<46, 67, 82, 51>>, <<46, 99, 114, 50>>, <<46, 68, 78, 71>>, <<46, 114, 97, 102>>, <<46, 82, 97, 102>>, <<46, 106, 112, 103>>, <<46, 99, 114, 51, 120>>, <<>>}

Init ==
    /\ input \in Inputs
    /\ file = Build(input)
    /\ api \in {"extract_metadata", "_get_exif_date"}
    /\ ext \in Suffixes
    /\ api = "extract_metadata" => ext = <<46, 99, 114, 51>>
    /\ pc = IF api = "extract_metadata" THEN "walk" ELSE "dispatch"
    /\ pos = 0
    /\ log = <<>>
    /\ metadata = EmptyDict
    /\ result = None
    /\ box = NoBox /\ search = NoSearch /\ tiff = NoTiff /\ child = NoChild
    /\ call = NoCall
    /\ strategies = <<>>
    /\ written = <<>> /\ sidecars = NoSidecars /\ last = NoLast /\ calls = 0

Next == NextFull \/ NextDate

Spec == Init /\ [][Next]_vars

-----------------------------------------------------------------------------
(* process_cr3_file(file_path), lines 521-555, over a folder of sources.    *)
(* A sidecar is [exists, writes, preexisting]: writes counts the times      *)
(* write_sidecar opened it for writing.                                     *)

\* The most calls of process_cr3_file in one run.
MaxCalls == 3

\* the sources of the folder: [stem, suffix] of the file name
Sources ==
    {[stem |-> "IMG_1", suffix |-> ".cr3"], [stem |-> "IMG_1", suffix |-> ".CR3"],
     [stem |-> "IMG_2", suffix |-> ".cr3"]}

\* sidecar_path = file_path.parent / f"{file_path.stem}_metadata.txt"
SidecarPath(src) == src.stem \o "_metadata.txt"
SidecarPaths == {SidecarPath(src) : src \in Sources}

\* An existence test that never finds the sidecar.
SidecarExists_Never(path) == FALSE

\* sidecar_path.exists()
SidecarExists(path) == sidecars[path].exists

\* the first bytes a source may hold: a 'crx ' ftyp box and 4 more bytes, an
\* ftyp box of brand 'heic', a TIFF header, and a file shorter than 20 bytes
SourceHeaders ==
    {Ftyp \o <<0, 0, 0, 24>>,
     BE32(16) \o Type_ftyp \o <<104, 101, 105, 99, 0, 0, 0, 1>> \o <<0, 0, 0, 24>>,
     TIFF_SIGNATURE_LE \o LE32(8) \o [k \in 1..12 |-> 0],
     SubSeq(Ftyp, 1, 12)}

\* is_cr3_file, lines 143-162: 'crx' in brand, for the 4 bytes of the brand
is_cr3_file(f) ==
    LET header == ReadBytes(f, 0, 20)
        box_type == SubSeq(header, 5, 8)
        brand == SubSeq(header, 9, 12)
        crx == <<99, 114, 120>>
    IN  IF Len(header) < 20 THEN FALSE
        ELSE box_type = Type_ftyp /\ (SubSeq(brand, 1, 3) = crx \/ SubSeq(brand, 2, 4) = crx)

\* what extract_metadata can return: None, or a mapping (with one field here)
ExtractResults == {None, [DictResult EXCEPT !.v = <<"Make">>]}

\* metadata is None or len(metadata) == 0
NoMetadata(m) == m = None \/ m.v = <<>>

\* write_sidecar, lines 408-519: open(sidecar_path, 'w') creates or truncates the
\* file; an exception of open leaves the folder as it was, an exception of a
\* later write leaves the file behind, and both return None
WriteOutcomes == {"written", "open failed", "write failed"}
write_sidecar(path, outcome) ==
    IF outcome = "open failed" THEN sidecars
    ELSE [sidecars EXCEPT ![path] = [@ EXCEPT !.exists = TRUE, !.writes = @ + 1]]

Called(src, existed, steps, ret) ==
    [source |-> src.stem \o src.suffix, existed |-> existed, steps |-> steps, ret |-> ret]

\* lines 521-555: one call, on a source whose bytes, extraction result and
\* write outcome are whatever they may be
ProcessCr3File ==
    /\ api = "process_cr3_file" /\ calls < MaxCalls
    /\ \E src \in Sources, f \in SourceHeaders, m \in ExtractResults, outcome \in WriteOutcomes :
          LET path == SidecarPath(src)
              existed == sidecars[path].exists
          IN  IF SidecarExists(path)
              THEN /\ last' = Called(src, existed, <<"exists">>, FALSE)
                   /\ UNCHANGED sidecars
              ELSE IF ~is_cr3_file(f)
              THEN /\ last' = Called(src, existed, <<"exists", "is_cr3_file">>, FALSE)
                   /\ UNCHANGED sidecars
              ELSE IF NoMetadata(m)
              THEN /\ last' = Called(src, existed,
                                     <<"exists", "is_cr3_file", "extract_metadata">>, FALSE)
                   /\ UNCHANGED sidecars
              ELSE /\ last' = Called(src, existed,
                                     <<"exists", "is_cr3_file", "extract_metadata",
                                       "write_sidecar">>,
                                     outcome = "written")
                   /\ sidecars' = write_sidecar(path, outcome)
    /\ calls' = calls + 1
    /\ UNCHANGED <<api, file, ext, pc, pos, log, metadata, result, box, search, tiff,
                   child, call, strategies, input, written>>

\* a folder in which any of the sidecars may be there already
InitSidecar ==
    /\ api = "process_cr3_file"
    /\ file = <<>> /\ ext = <<>> /\ pc = "idle" /\ pos = 0 /\ log = <<>>
    /\ metadata = EmptyDict /\ result = None
    /\ box = NoBox /\ search = NoSearch /\ tiff = NoTiff /\ child = NoChild
    /\ call = NoCall /\ strategies = <<>> /\ input = NoInput /\ written = <<>>
    /\ \E there \in SUBSET SidecarPaths :
          sidecars = [p \in SidecarPaths |->
                        [exists |-> p \in there, writes |-> 0, preexisting |-> p \in there]]
    /\ last = NoLast
    /\ calls = 0

NextSidecar == ProcessCr3File

SpecSidecar == InitSidecar /\ [][NextSidecar]_vars

-----------------------------------------------------------------------------
(* Properties of format_tag_value (checked under SpecFmt)                  *)

\* The size in bytes of one value of each TIFF type the docstring of
\* format_tag_value names (line 167).
TypeSize == (1 :> 1) @@ (2 :> 1) @@ (3 :> 2) @@ (4 :> 4) @@ (5 :> 8) @@ (7 :> 1)
            @@ (9 :> 4) @@ (10 :> 8)

FmtReturned == api = "format_tag_value" /\ pc = "returned"

\* The offset the slot holds, added to the base.
CallTarget == call.data_offset + U32LE(call.value_data)

\* C1: for every call of format_tag_value on an entry of one of the eight types
\* and of count >= 1,
\* the value is taken from the 4-byte slot itself (no read of the file) exactly
\* when type size x count <= 4, and is read from the file at base + slot-as-offset
\* exactly when type size x count > 4.
C1_LiteralIffFits ==
    (FmtReturned /\ call.tag_type \in DOMAIN TypeSize /\ call.count >= 1) =>
        IF TypeSize[call.tag_type] * call.count <= 4
        THEN call.reads = <<>>
        ELSE call.reads # <<>> /\ call.reads[1][1] = CallTarget

\* C2: for every call of format_tag_value, whether it returns a decoded value or
\* a parse-error placeholder, the cursor after the call is the cursor before it.
C2_CursorRestored == FmtReturned => call.after = call.before

\* The two components of the rational a RATIONAL / SRATIONAL entry points at,
\* when all 8 bytes lie inside the file.
RationalReadable ==
    /\ call.tag_type \in {5, 10}
    /\ CallTarget + 8 <= Len(file)
RationalNum ==
    LET b == SubSeq(file, CallTarget + 1, CallTarget + 4)
    IN  IF call.tag_type = 10 THEN S32LE(b) ELSE U32LE(b)
RationalDen ==
    LET b == SubSeq(file, CallTarget + 5, CallTarget + 8)
    IN  IF call.tag_type = 10 THEN S32LE(b) ELSE U32LE(b)

\* C8: a RATIONAL (5) or SRATIONAL (10) entry whose denominator at base + pointer
\* is 0 decodes to the integer 0 and not to an error; with a non-zero denominator
\* it decodes to the quotient numerator / denominator, both components read as
\* signed for SRATIONAL.
C8_RationalZeroDenominator ==
    (FmtReturned /\ RationalReadable) =>
        IF RationalDen = 0
        THEN call.ret = PyInt(0)
        ELSE /\ call.ret.t = "float"
             /\ call.ret.v[2] > 0
             /\ LET k == RationalDen \div call.ret.v[2]
                IN  /\ RationalDen = k * call.ret.v[2]
                    /\ RationalNum = k * call.ret.v[1]

\* C8's case: a rational with denominator 0 was decoded.
C8_Witness ==
    /\ FmtReturned /\ RationalReadable /\ call.count = 1
    /\ RationalNum # 0 /\ RationalDen = 0
    /\ call.ret = PyInt(0)

-----------------------------------------------------------------------------
(* Properties of extract_metadata and _get_exif_date (checked under Spec)   *)

FullDone == Full /\ pc = "done"
DateDone == Date /\ pc = "done"
Cr3DateDone == DateDone /\ strategies = <<CR3_STRATEGY>>

\* a metadata box of the "multi" family: a well-formed container holding the
\* directories input.dirs, each with one entry
Multi == input.family = "multi"

\* the field a directory of the "multi" family holds, and its value
FieldName(d) == IF d.kind = "make" THEN "Make" ELSE "DateTimeOriginal"
FieldValue(d) == IF d.kind = "make" THEN PyStr(<<67, 97, 110>>) ELSE PyStr(Texts[d.text])

\* the keys that carry the ordinal of the directory at zero-based index k
OrdinalKeys(k, name) ==
    IF k = 0 THEN {name}
    ELSE {"TIFF" \o ToString(k + 1) \o "_" \o name, "TIFF" \o ToString(k) \o "_" \o name,
          "Dir" \o ToString(k) \o "_" \o name, "Dir" \o ToString(k + 1) \o "_" \o name}

\* C3: for every well-formed container with one metadata box holding N >= 1
\* directories, each in either byte order and each with at least one entry,
\* extract_metadata returns a mapping that holds the field of every directory:
\* directory 0's under its plain name and directory k's, k >= 1, under a key
\* that carries k's ordinal.
C3_AllDirectoriesReturned ==
    (FullDone /\ Multi /\ Len(input.dirs) >= 1) =>
        /\ result.t = "dict"
        /\ \A k \in 1..Len(input.dirs) :
              \E key \in OrdinalKeys(k - 1, FieldName(input.dirs[k])) :
                  /\ key \in DOMAIN metadata
                  /\ metadata[key] = FieldValue(input.dirs[k])

\* The scenario of C4: two directories, each with a DateTimeOriginal entry of
\* ASCII count 20 stored out of line, directory 0 little-endian with the text
\* "2024:03:15 10:30:00".
C4_Scenario ==
    /\ Multi /\ Len(input.dirs) = 2
    /\ input.dirs[1] = Dir("<", "date", "valid")
    /\ input.dirs[2].kind = "date"

Timestamps ==
    ("valid" :> PyDate(2024, 3, 15)) @@ ("other" :> PyDate(2023, 12, 31))
    @@ ("lenient" :> PyDate(2024, 3, 15))

\* the directory holds a DateTimeOriginal entry whose text is a timestamp
HoldsTimestamp(d) ==
    d.kind \in {"date", "exif", "sub", "big", "bigchild", "both", "badptr", "longtext"}
    /\ d.text \in DOMAIN Timestamps

\* the file has a second metadata box, whose directory holds the timestamp
\* "2023:12:31 23:59:59"
SecondBoxTimestamp ==
    input.family = "layout" /\ input.layout = "two_boxes"

C6_OversizedBoxEndsWalk ==
    (box # NoBox /\ pc # "done") =>
        /\ box.box_size # 0
        /\ box.box_size <= Len(file) - box.current_pos

\* C7: a directory whose 2-byte entry count exceeds 200, top-level or child, is
\* skipped entirely: extract_metadata decodes no entry of a main directory with
\* more than 200 entries and no entry of a child directory with more than 200.
C7_OversizedDirectorySkipped ==
    Full =>
        /\ pc = "entry" => tiff.num_entries <= MAX_ENTRIES
        /\ (pc = "child" /\ child.n > MAX_ENTRIES) => child.j = 0

\* C9: every entry point returns a result (a mapping or a date) or None for every
\* input file; no exception leaves it.
C9_NoExceptionPropagates ==
    pc = "done" =>
        IF Full THEN result.t \in {"None", "dict"} ELSE result.t \in {"None", "date"}

\* C9's case: an exception was raised inside extract_metadata (the file ends
\* inside an extended size field, or a directory's offset points past the end)
\* and the call returned.
C9_Witness ==
    /\ FullDone
    /\ \E i \in 1..Len(log) : log[i].e = "raise"
    /\ result.t \in {"None", "dict"}

\* The strategy each suffix of Suffixes is to go to.
ExpectedStrategy ==
    (<<46, 99, 114, 51>> :> "_extract_date_from_cr3")
    @@ (<<46, 67, 82, 51>> :> "_extract_date_from_cr3")
    @@ (<<46, 99, 114, 50>> :> "_extract_date_from_tiff_raw")
    @@ (<<46, 68, 78, 71>> :> "_extract_date_from_tiff_raw")
    @@ (<<46, 114, 97, 102>> :> "_extract_date_from_raf")
    @@ (<<46, 82, 97, 102>> :> "_extract_date_from_raf")
    @@ (<<46, 106, 112, 103>> :> "_extract_date_generic_scan")
    @@ (<<46, 99, 114, 51, 120>> :> "_extract_date_generic_scan")
    @@ (<<>> :> "_extract_date_generic_scan")

\* C10: once _get_exif_date has dispatched, the strategies it has called are
\* exactly the one its lower-cased suffix names, whatever the file's bytes, and
\* that stays so after the strategy has returned, also when it returned None.
C10_OneStrategyByExtension ==
    (Date /\ pc # "dispatch") => strategies = <<ExpectedStrategy[ext]>>

\* C10's case: a file that is a TIFF with a valid timestamp but is named .CR3
\* went to the container walk only, which returned None.
C10_Witness ==
    /\ DateDone
    /\ ext = <<46, 67, 82, 51>>
    /\ input.family = "raw" /\ input.dirs = <<Dir("<", "date", "valid")>>
    /\ strategies = <<CR3_STRATEGY>>
    /\ result = None

-----------------------------------------------------------------------------
(* Properties of process_cr3_file (checked under SpecSidecar)               *)

\* C11: over any sequence of process_cr3_file calls, a sidecar that is there
\* already is never written: a call that finds it returns False after the
\* existence test alone, a sidecar that was there before the first call is never
\* opened for writing, and no sidecar is opened for writing more than once.
C11_SidecarWrittenAtMostOnce ==
    api = "process_cr3_file" =>
        /\ \A p \in DOMAIN sidecars :
              /\ sidecars[p].writes <= 1
              /\ sidecars[p].preexisting => sidecars[p].writes = 0
        /\ (last # NoLast /\ last.existed) => (last.steps = <<"exists">> /\ ~last.ret)

\* C11's case: the sidecar of IMG_1 was written by one call, and the last call,
\* for the other source of the same stem, found it and returned False.
C11_Witness ==
    /\ api = "process_cr3_file"
    /\ sidecars["IMG_1_metadata.txt"].writes = 1
    /\ ~sidecars["IMG_1_metadata.txt"].preexisting
    /\ last.source = "IMG_1.CR3" /\ last.existed /\ ~last.ret

-----------------------------------------------------------------------------
(* Further properties of extract_metadata and _get_exif_date (under Spec)   *)

\* C12: in full extraction no key assigned for one decoded field is assigned
\* again for another decoded field of the same run, neither across directories
\* nor within one directory (its own entries and those of its children), so
\* every decoded field is in the mapping with its own value.
C12_NoKeyWrittenTwice ==
    Full => \A i, j \in 1..Len(written) : i # j => written[i] # written[j]

\* a container of the "layout" family whose directory is the little-endian one
\* with DateTimeOriginal = "2024:03:15 10:30:00"
LayoutLE(layout) ==
    /\ input.family = "layout" /\ input.layout = layout
    /\ input.dirs = <<Dir("<", "date", "valid")>>

\* C13: full extraction returns the fields of the first vendor metadata box that
\* yields a field and no field of a later box: of two metadata boxes with one
\* directory each, only the first one's DateTimeOriginal is returned; and a
\* metadata box without any directory before it does not stop the walk.
C13_FirstYieldingBoxOnly ==
    (FullDone /\ (LayoutLE("two_boxes") \/ LayoutLE("empty_first"))) =>
        /\ result.t = "dict"
        /\ DOMAIN metadata = {"DateTimeOriginal"}
        /\ metadata["DateTimeOriginal"] = PyStr(Texts["valid"])

\* the directories of the box, in position order, that hold a non-empty
\* DateTimeOriginal text
NonEmptyHits == {k \in 1..Len(input.dirs) :
                    input.dirs[k].kind = "date" /\ Texts[input.dirs[k].text] # <<>>}

\* the date of the first of them, None when its text is no timestamp
FirstHitDate ==
    IF NonEmptyHits = {} THEN None
    ELSE LET k == CHOOSE h \in NonEmptyHits : \A g \in NonEmptyHits : h <= g
             text == input.dirs[k].text
         IN  IF text \in DOMAIN Timestamps THEN Timestamps[text] ELSE None

\* C14: date-only extraction of a container is decided by the first non-empty
\* DateTimeOriginal text met when the located directories are taken by position
\* of their signature; later directories never change the result.
C14_FirstHitInPositionOrderWins ==
    (Cr3DateDone /\ Multi) => result = FirstHitDate

\* a signature of either byte order starts at file offset i
SignatureAt(i) ==
    /\ i + 4 <= Len(file)
    /\ SubSeq(file, i + 1, i + 4) \in {TIFF_SIGNATURE_LE, TIFF_SIGNATURE_BE}

\* the box whose payload is being searched is the current box
Searching ==
    search # NoSearch /\ search.search_start = box.current_pos + box.header_len + 16

\* the positions, relative to the start of the search, of every signature that
\* lies in the lookahead window of the current box's byte range
WindowSignatures ==
    LET stop == Min(Min(box.current_pos + box.box_size, Len(file)),
                    search.search_start + LOOKAHEAD)
    IN  {i - search.search_start : i \in {j \in search.search_start..(stop - 4) : SignatureAt(j)}}

RECURSIVE Ascending(_)
Ascending(S) ==
    IF S = {} THEN <<>>
    ELSE LET m == CHOOSE x \in S : \A y \in S : x <= y
         IN  <<m>> \o Ascending(S \ {m})

IsPrefix(p, q) == Len(p) <= Len(q) /\ SubSeq(q, 1, Len(p)) = p

\* C15: inside a metadata box both modes take as candidate directories the
\* occurrences of either signature in the lookahead window of the box's byte
\* range, in increasing position: the candidates examined so far are the first
\* ones of that list, and full extraction, which locates all candidates before
\* decoding any, has the whole list.
C15_EverySignatureInPositionOrder ==
    Searching =>
        /\ IsPrefix(search.tiff_indices, Ascending(WindowSignatures))
        /\ Full => search.tiff_indices = Ascending(WindowSignatures)

\* a box walk is between two boxes: the box at box.current_pos was accepted and
\* left, and the next header, if any, is read at pos
BetweenBoxes == pc \in {"walk", CR3_STRATEGY} /\ box # NoBox

\* the header fields of the box that starts at file offset s, as the file has them
SizeField(s) == U32BE(SubSeq(file, s + 1, s + 4))
TypeField(s) == SubSeq(file, s + 5, s + 8)
DeclaredSize(s) ==
    IF SizeField(s) = 1 THEN U64BE(SubSeq(file, s + 9, s + 16)) ELSE SizeField(s)
HeaderLength(s) == IF SizeField(s) = 1 THEN 16 ELSE 8

\* C16: in both box walks, for an accepted box at offset s with declared size z
\* the header length h is 8, or 16 when the 32-bit size field is 1 (z is then the
\* 64-bit value that follows); the next header is read at s + h after a box of
\* type moov, trak, mdia, minf or stbl and at s + z after every other box, a
\* uuid box whose identifier and window were read included.
C16_NextBoxOffset ==
    BetweenBoxes =>
        LET s == box.current_pos
        IN  /\ box.header_len = HeaderLength(s)
            /\ box.box_size = DeclaredSize(s)
            /\ pos = IF TypeField(s) \in ContainerTypes
                     THEN s + HeaderLength(s) ELSE s + DeclaredSize(s)

\* C16's case: full extraction has read the identifier and the window of a
\* Canon metadata box that has a 16-byte header, found nothing to return, and
\* has left the box by its 64-bit size.
C16_Witness ==
    /\ BetweenBoxes /\ Full
    /\ SizeField(box.current_pos) = 1 /\ box.box_type = Type_uuid
    /\ Searching /\ search.search_start = box.current_pos + 32
    /\ pos = box.current_pos + box.box_size

\* C17: following child-directory pointers never goes deeper than one level
\* below a top-level directory: every decode of a directory, also of one whose
\* ExifIFD pointer points back at the directory itself, reaches a nesting depth
\* of at most 2.
C17_NestingDepthAtMostTwo ==
    \A i \in 1..Len(log) : log[i].e = "decode" => log[i].depth <= 2

\* C19: all four date strategies apply one and the same sanity bound to the
\* first-directory offset read after a signature, and none of them starts
\* decoding a directory at an offset outside it: whichever strategy ran, every
\* decode started at an offset between the lower and the upper limit that the
\* container walk applies.
C19_OneOffsetBound ==
    Date => \A i \in 1..Len(log) :
                log[i].e = "decode" =>
                    MIN_IFD_OFFSET <= log[i].n /\ log[i].n <= MAX_IFD_OFFSET

\* the metadata box holds one directory whose ExifIFD pointer, between a Make
\* entry and a DateTimeOriginal entry, points outside the file
BadPointer(bo) ==
    input.family = "single" /\ input.dirs = <<Dir(bo, "badptr", "valid")>>

\* C20: a child-directory offset that points outside the file skips only that
\* child: full extraction keeps the parent field decoded before the pointer
\* entry and decodes the entry that follows it, and date-only extraction goes
\* on to the parent's remaining entries and finds the timestamp.
C20_BadChildPointerSkipsOnlyChild ==
    /\ (FullDone /\ BadPointer("<")) =>
          /\ result.t = "dict"
          /\ DOMAIN metadata = {"Make", "DateTimeOriginal"}
          /\ metadata["DateTimeOriginal"] = PyStr(Texts["valid"])
    /\ \A bo \in Orders : (Cr3DateDone /\ BadPointer(bo)) => result = PyDate(2024, 3, 15)

\* the metadata box holds one little-endian directory of the given kind, in
\* which an entry whose value cannot be materialized is followed by Make
BadValue(kind) ==
    input.family = "single" /\ input.dirs = <<Dir("<", kind, "empty")>>

\* C21: in full extraction an entry whose value cannot be materialized (a
\* RATIONAL whose offset lies past the end of the file, a SHORT with count 0)
\* is recorded under its name with the diagnostic placeholder, and the entry
\* that follows it in the directory is decoded to the name and value it has
\* without the failing entry: Make = "Can".
C21_FailedValueKeepsDirectory ==
    /\ (FullDone /\ BadValue("badrational")) =>
          /\ result.t = "dict"
          /\ DOMAIN metadata = {"FNumber", "Make"}
          /\ metadata["FNumber"] = ParseError
          /\ metadata["Make"] = PyStr(<<67, 97, 110>>)
    /\ (FullDone /\ BadValue("short0")) =>
          /\ result.t = "dict"
          /\ DOMAIN metadata = {"Orientation", "Make"}
          /\ metadata["Orientation"] = ParseError
          /\ metadata["Make"] = PyStr(<<67, 97, 110>>)

\* C22: in both box walks a box whose declared size is smaller than its own
\* header (8 bytes, 16 with the extended size) ends the walk at that box: the
\* walk goes on past a header only when the size is at least the header length.
C22_UndersizedBoxEndsWalk ==
    (box # NoBox /\ pc # "done") => box.box_size >= box.header_len

\* the keys a directory of kind "vendor" gives at zero-based position k among
\* the candidates of its box: tag 7 has a name in the vendor dictionary only,
\* Make in the default dictionary only, tag 9 in neither
VendorKeys(k) ==
    LET prefix == IF k = 0 THEN "" ELSE "TIFF" \o ToString(k + 1) \o "_"
    IN  {prefix \o (IF k = 4 THEN "FirmwareVersion" ELSE "UnknownTag_7"),
         prefix \o "Make", prefix \o "UnknownTag_9"}

\* C23: in full extraction the vendor dictionary is chosen by ordinal alone and
\* for ordinal 4 only: a directory at any other ordinal has its tags named by
\* the default dictionary or UnknownTag_<id>, the directory at ordinal 4 takes
\* the vendor name for an id of the vendor dictionary and the default naming
\* for any other id; candidates skipped as invalid count in the ordinal.
C23_VendorNamesAtOrdinalFour ==
    (FullDone /\ input.family = "ordinal") =>
        /\ result.t = "dict"
        /\ DOMAIN metadata =
              UNION {VendorKeys(k - 1) : k \in {j \in 1..Len(input.dirs) :
                                                  input.dirs[j].kind = "vendor"}}
        /\ \A key \in DOMAIN metadata : metadata[key] = PyStr(<<67, 97, 110>>)

\* C23's case: the box's first candidate was skipped for its offset and the
\* directory behind four candidates got the vendor name for tag 7.
C23_Witness ==
    /\ FullDone /\ input.family = "ordinal"
    /\ input.dirs[1].kind = "far"
    /\ "TIFF5_FirmwareVersion" \in DOMAIN metadata
    /\ "TIFF5_UnknownTag_9" \in DOMAIN metadata

\* the RAF strategy ran on a file that starts with 'FUJIFILM' and has a pointer
\* field at byte 84
RafPointerRead ==
    /\ DateDone /\ StrategyFor(ext) = "_extract_date_from_raf"
    /\ ReadBytes(file, 0, 8) = FUJIFILM
    /\ Len(ReadBytes(file, RAF_POINTER_AT, 4)) = 4

\* the four bytes at the place the pointer field names
BytesAtRafPointer == ReadBytes(file, U32BE(ReadBytes(file, RAF_POINTER_AT, 4)), 4)

\* C24: the RAF strategy decodes a directory only after FF D8 FF E1 was found
\* at the place the pointer at byte 84 names, always with the pointer plus 12
\* as the directory base; without the marker there it returns None.
C24_RafDecodesBehindMarkerOnly ==
    RafPointerRead =>
        /\ \A i \in 1..Len(log) :
              log[i].e = "decode" =>
                  /\ BytesAtRafPointer = JPEG_SOI_APP1
                  /\ log[i].at = U32BE(ReadBytes(file, RAF_POINTER_AT, 4)) + RAF_EXIF_SKIP
        /\ BytesAtRafPointer # JPEG_SOI_APP1 => result = None

\* the brute-force scan ran to its end
GenericScanDone == DateDone /\ StrategyFor(ext) = "_extract_date_generic_scan"

\* a signature of either byte order in the first four bytes of the file
SignatureAtStart == SignatureOrder(ReadBytes(file, 0, 4)) # ""

\* the positions of the first occurrence of each signature in the first 4096 bytes
FirstOccurrences ==
    {FindFrom(ReadBytes(file, 0, SCAN_WINDOW), sig, 0) :
        sig \in {TIFF_SIGNATURE_LE, TIFF_SIGNATURE_BE}} \ {-1}

\* the positions the run decoded a directory from, in the log's order
DecodedAt == SelectSeq(log, LAMBDA ev : ev.e = "decode")

\* lines 286-288 were reached: the first 4096 bytes were read
WindowScanned == \E i \in 1..Len(log) : log[i] = ReadEv(0, SCAN_WINDOW)

\* C25: the brute-force scan checks offset 0 first and reads the first 4096
\* bytes only when no signature is at offset 0; it then decodes from the
\* lowest-positioned occurrence of either signature, with that position as the
\* base, and from no other match.
C25_ScanDecodesLowestMatchOnly ==
    GenericScanDone =>
        /\ SignatureAtStart => ~WindowScanned
        /\ ~SignatureAtStart =>
              \A i \in 1..Len(DecodedAt) :
                  /\ i = 1
                  /\ \A p \in FirstOccurrences : DecodedAt[i].at <= p

\* C26: in every decode path and for every file, no single read asks for more
\* than the lookahead window of 200000 bytes; the reads made for directory
\* entries and the data they point to (out-of-line text included) stay below it.
C26_NoReadBeyondLookahead ==
    \A i \in 1..Len(log) : log[i].e = "read" => log[i].n <= LOOKAHEAD

-----------------------------------------------------------------------------
(* Termination.  A decoder call is one sequential run: whenever a next       *)
(* statement exists it is executed, which is weak fairness of Next.          *)

SpecLive == Init /\ [][Next]_vars /\ WF_vars(Next)

\* the next box header is read at a greater offset than the one before
BoxWalkAdvances == BetweenBoxes => pos > box.current_pos

\* the candidates located in a box are at strictly increasing positions
CandidatesAscend ==
    \A j, k \in 1..Len(search.tiff_indices) :
        j < k => search.tiff_indices[j] < search.tiff_indices[k]

\* a match of the signature scan moves the search position forward, past the match
ScanAdvances ==
    (pc = "scan" /\ search' # search) =>
        /\ search'.search_pos > search.search_pos
        /\ search'.search_pos > search'.tiff_indices[Len(search'.tiff_indices)]

\* C18: every decode path completes in one pass: each iteration of a box walk
\* reads the next header at a strictly greater file offset than the one before,
\* each match of the signature scan in a metadata box moves the search position
\* strictly forward, and every run reaches its return.
C18_OnePassTermination ==
    /\ [](BoxWalkAdvances /\ CandidatesAscend)
    /\ [][ScanAdvances]_vars
    /\ <>(pc = "done")

\* C18's case: a date-only walk that went past the first box, examined two
\* candidates in the metadata box, went on and returned at the end of the file.
C18_Witness ==
    /\ Cr3DateDone
    /\ box.current_pos > 0
    /\ Len(search.tiff_indices) = 2
    /\ pos >= Len(file)

=============================================================================
